---- MODULE Spec2Model ----
(***************************************************************************)
(* Session / model lifecycle and dispatch engine of the ASL translation    *)
(* and training server ("Android Python Server/main.py" and                *)
(* "Android Python Server/level_model_manager.py"), and the websocket      *)
(* endpoint of the worker-pool server ("python_server/main.py").           *)
(*                                                                         *)
(* The process-wide singletons of the session server are the variables:    *)
(*   asl_model              ASLModel            (default dispatcher)       *)
(*   training_collector     EnhancedTrainingCollector                      *)
(*   isolated_level_manager IsolatedLevelModelManager                      *)
(*   manager                ConnectionManager                              *)
(* The file system under the working directory is the variable files.      *)
(* Every HTTP handler is an async def without an await after its request   *)
(* body has been read, so each handler is one atomic action; the websocket *)
(* handler is cut at its awaits (receive_text, send_json).                 *)
(* The two servers are separate programs: a behaviour runs one of them and *)
(* the other's websockets stay "off".  The offline trainer                 *)
(* ("Android Python Server/train_model_android.py") is a script of its     *)
(* own; its working directory is the variable offline.                     *)
(***************************************************************************)
EXTENDS Integers, Sequences, FiniteSets, TLC

VARIABLES asl_model, training_collector, isolated_level_manager, manager,
          files, ws_pc, ws_response,
          last,            \* outcome of the last HTTP request
          before_practice, \* the request that preceded the last practice request
          \* the worker-pool server ("python_server/main.py")
          pool_manager,    \* OptimizedConnectionManager
          handler,         \* asl_websocket_endpoint, one coroutine per websocket
          executor,        \* ThreadPoolExecutor: work queue and jobs
          inference_lock,  \* OptimizedASLModel.inference_lock: the job holding it
          pool_sent,       \* what each open websocket has been sent
          \* the offline trainer ("train_model_android.py")
          offline          \* its working directory and its last run

\* the state of the session and training server
android_vars == <<asl_model, training_collector, isolated_level_manager, manager,
                  files, ws_pc, ws_response, last, before_practice>>

\* the state of the worker-pool server
pool_vars == <<pool_manager, handler, executor, inference_lock, pool_sent>>

\* the state of the offline trainer
trainer_vars == <<offline>>

vars == <<android_vars, pool_vars, trainer_vars>>

----------------------------------------------------------------------------
(* Program constants *)

ORIGINAL_LABELS == <<"Yes", "No", "I Love You", "Hello", "Thank You">>

KnownLessons == {"lesson_1", "lesson_2", "lesson_3", "lesson_4", "lesson_5"}

LessonTable ==
  [l \in KnownLessons |->
     CASE l = "lesson_1" -> <<"Hello", "Thank You", "Yes", "No">>
       [] l = "lesson_2" -> <<"Happy", "Sad", "Angry", "Love">>
       [] l = "lesson_3" -> <<"Eat", "Drink", "Sleep", "Go">>
       [] l = "lesson_4" -> <<"Book", "Phone", "Car", "Home">>
       [] l = "lesson_5" -> <<"What", "Where", "When", "Who">>]

\* mutant: an unknown lesson id falls back to the default vocabulary
LESSON_GESTURES_or_default(l) == IF l \in KnownLessons THEN LessonTable[l] ELSE ORIGINAL_LABELS

\* dict.get(lesson_id, []) on the two (identical) lesson dictionaries
LESSON_GESTURES(l) == IF l \in KnownLessons THEN LessonTable[l] ELSE <<>>

PRACTICE_LEVEL_GESTURES(l) == IF l \in KnownLessons THEN LessonTable[l] ELSE <<>>

----------------------------------------------------------------------------
(* Bounds and input sets *)

MaxSamples == 3

\* None / missing JSON field
None == "None"

SessionIds == {"s1", "admin_level_a"}

\* str.startswith("admin_level_") on the session ids in use
StartsWithAdminLevel(s) == s \in {"admin_level_a"}

\* the session ids the admin endpoints accept
AdminSessionIds == {x \in SessionIds : StartsWithAdminLevel(x)}

\* lesson ids of practice requests; lesson_9 is not a known lesson
LessonIds == {"lesson_1", "lesson_2", "lesson_9"}

\* lesson ids of admin training requests
TrainLessonIds == {"lesson_1", "lesson_9"}

\* gesture names of requests; " Hello" carries surrounding whitespace
GestureInputs == {"Hello", " Hello", "Thank You", "Bogus"}

\* str.strip() on the gesture names in use
strip(g) == IF g = " Hello" THEN "Hello" ELSE g

\* what the camera frame of a request turns out to be
FrameKinds == {"hand", "nohand", "garbage"}

----------------------------------------------------------------------------
(* Python list helpers *)

Elems(s) == {s[i] : i \in 1..Len(s)}

\* list.index(x), 0-based; only used when x is in the list
IndexOf(s, x) == (CHOOSE i \in 1..Len(s) : s[i] = x /\ \A j \in 1..(i-1) : s[j] # x) - 1

\* dict.get(k, []) on a dict of lists
GetList(d, k) == IF k \in DOMAIN d THEN d[k] ELSE <<>>

\* d[k] = v on a dict
Put(d, k, v) == [x \in (DOMAIN d) \cup {k} |-> IF x = k THEN v ELSE d[x]]

EmptyDict == [x \in {} |-> <<>>]

----------------------------------------------------------------------------
(* EnhancedTrainingCollector *)

\* A feature vector is opaque; it is tagged with the session that stored it
\* and the gesture it was submitted under.
Feature(sid, g) == [sess |-> sid, gesture |-> g]

CollectorInit ==
  [current_session |-> None,
   training_features |-> EmptyDict,
   training_labels |-> EmptyDict,
   admin_level_sessions |-> EmptyDict,
   current_lesson_gestures |-> <<>>,
   current_lesson_id |-> None]

\* mutant: the buffers of the previous session are kept and only the missing
\* buckets are added
start_training_session_keeps_buffers(tc, session_id, is_admin_level, lesson_id) ==
  LET adm == is_admin_level /\ lesson_id # None
      gestures == IF adm THEN LESSON_GESTURES(lesson_id) ELSE ORIGINAL_LABELS
  IN [current_session |-> session_id,
      training_features |-> [g \in Elems(gestures) \cup DOMAIN tc.training_features |->
                               GetList(tc.training_features, g)],
      training_labels |-> [g \in Elems(gestures) \cup DOMAIN tc.training_labels |->
                             GetList(tc.training_labels, g)],
      admin_level_sessions |->
         IF adm
         THEN Put(tc.admin_level_sessions, session_id,
                  [lesson_id |-> lesson_id, is_admin |-> TRUE, gestures |-> gestures])
         ELSE tc.admin_level_sessions,
      current_lesson_gestures |-> gestures,
      current_lesson_id |-> IF adm THEN lesson_id ELSE None]

start_training_session(tc, session_id, is_admin_level, lesson_id) ==
  LET adm == is_admin_level /\ lesson_id # None
      gestures == IF adm THEN LESSON_GESTURES(lesson_id) ELSE ORIGINAL_LABELS
  IN [current_session |-> session_id,
      training_features |-> [g \in Elems(gestures) |-> <<>>],
      training_labels |-> [g \in Elems(gestures) |-> <<>>],
      admin_level_sessions |->
         IF adm
         THEN Put(tc.admin_level_sessions, session_id,
                  [lesson_id |-> lesson_id, is_admin |-> TRUE, gestures |-> gestures])
         ELSE tc.admin_level_sessions,
      current_lesson_gestures |-> gestures,
      current_lesson_id |-> IF adm THEN lesson_id ELSE None]

\* mutant: a name outside the vocabulary gets a bucket of its own
process_training_frame_unvalidated(tc, gesture_name_raw, frame) ==
  LET gesture_name == strip(gesture_name_raw)
      count == Len(GetList(tc.training_features, gesture_name))
  IN  IF tc.current_session = None THEN <<tc, 0>>
      ELSE IF frame # "hand" THEN <<tc, count>>
      ELSE <<[tc EXCEPT !.training_features =
                           Put(@, gesture_name,
                               Append(GetList(@, gesture_name),
                                      Feature(tc.current_session, gesture_name))),
                        !.training_labels =
                           Put(@, gesture_name, Append(GetList(@, gesture_name), 0))],
             count + 1>>

\* mutant: a frame without a detection is stored like a detected one
process_training_frame_stores_misses(tc, gesture_name_raw, frame) ==
  LET gesture_name == strip(gesture_name_raw)
      valid_gestures == IF tc.current_lesson_gestures # <<>>
                        THEN tc.current_lesson_gestures ELSE ORIGINAL_LABELS
      count == Len(GetList(tc.training_features, gesture_name))
  IN  IF tc.current_session = None THEN <<tc, 0>>
      ELSE IF gesture_name \notin Elems(valid_gestures) THEN <<tc, 0>>
      ELSE IF frame = "garbage" THEN <<tc, count>>
      ELSE IF gesture_name \notin DOMAIN tc.training_features THEN <<tc, count>>
      ELSE LET gesture_idx == IndexOf(valid_gestures, gesture_name)
               feats == [tc.training_features EXCEPT
                           ![gesture_name] = Append(@, Feature(tc.current_session, gesture_name))]
               labs == IF gesture_name \in DOMAIN tc.training_labels
                       THEN [tc.training_labels EXCEPT ![gesture_name] = Append(@, gesture_idx)]
                       ELSE tc.training_labels
           IN <<[tc EXCEPT !.training_features = feats, !.training_labels = labs],
                Len(feats[gesture_name])>>

\* process_training_frame: <<new collector, returned count>>
process_training_frame(tc, gesture_name_raw, frame) ==
  LET gesture_name == strip(gesture_name_raw)
      valid_gestures == IF tc.current_lesson_gestures # <<>>
                        THEN tc.current_lesson_gestures ELSE ORIGINAL_LABELS
      count == Len(GetList(tc.training_features, gesture_name))
  IN  IF tc.current_session = None THEN <<tc, 0>>
      ELSE IF gesture_name \notin Elems(valid_gestures) THEN <<tc, 0>>
      ELSE IF frame # "hand" THEN <<tc, count>>
      \* training_features[gesture_name] raises KeyError when the bucket is
      \* missing; the except clause then returns the .get() length
      ELSE IF gesture_name \notin DOMAIN tc.training_features THEN <<tc, count>>
      ELSE LET gesture_idx == IndexOf(valid_gestures, gesture_name)
               feats == [tc.training_features EXCEPT
                           ![gesture_name] = Append(@, Feature(tc.current_session, gesture_name))]
               \* a missing label bucket raises after the feature was appended
               labs == IF gesture_name \in DOMAIN tc.training_labels
                       THEN [tc.training_labels EXCEPT ![gesture_name] = Append(@, gesture_idx)]
                       ELSE tc.training_labels
           IN <<[tc EXCEPT !.training_features = feats, !.training_labels = labs],
                Len(feats[gesture_name])>>

----------------------------------------------------------------------------
(* File system.  One record per artifact directory: "models" is the default  *)
(* artifact, a lesson id l stands for level_models/<l>, and "root" is the    *)
(* working directory, where duplicates asl_model.pkl and asl_model_tf of the *)
(* default artifact may lie.  A file is "absent", "good" (loads) or          *)
(* "corrupt" (exists, its load raises).                                      *)

ArtifactDirs == {"models", "root"} \cup LessonIds

NoDir == [exists |-> FALSE, pkl |-> "absent", tf |-> "absent", meta |-> "absent"]

EmptyDir == [exists |-> TRUE, pkl |-> "absent", tf |-> "absent", meta |-> "absent"]

\* os.makedirs(d, exist_ok=True)
makedirs(fs, d) == [fs EXCEPT ![d].exists = TRUE]

\* mutant: the models directory is removed as a whole and created again
clean_old_models_removes_directory(fs) ==
  makedirs([fs EXCEPT !["models"] = NoDir,
                      !["root"].pkl = "absent", !["root"].tf = "absent"], "models")

\* clean_old_models: removes the four safe_targets models/asl_model.pkl,
\* models/asl_model_tf, asl_model_tf and asl_model.pkl
\* (training_metadata.json is not among them), then makedirs("models")
clean_old_models(fs) ==
  makedirs([fs EXCEPT !["models"].pkl = "absent", !["models"].tf = "absent",
                      !["root"].pkl = "absent", !["root"].tf = "absent"], "models")

\* cleanup_duplicates: removes asl_model_tf and asl_model.pkl of the working
\* directory
cleanup_duplicates(fs) == [fs EXCEPT !["root"].pkl = "absent", !["root"].tf = "absent"]

----------------------------------------------------------------------------
(* Classifier handles and metadata records held in memory *)

NoModel == [kind |-> "none", owner |-> "none"]

TFModel(o) == [kind |-> "tf", owner |-> o]

RFModel(o) == [kind |-> "rf", owner |-> o]

NoMetadata == [present |-> FALSE, lesson_id |-> "none", gestures |-> <<>>]

\* the dict written at the end of run_training for the artifact of owner o
MetadataOf(o) ==
  [present |-> TRUE, lesson_id |-> o,
   gestures |-> IF o = "original" THEN ORIGINAL_LABELS ELSE LESSON_GESTURES(o)]

----------------------------------------------------------------------------
(* ASLModel (default dispatcher) *)

\* load_model: loads models/asl_model_tf when the path exists; a load that
\* raises only clears model_loaded; a missing path changes nothing
load_model(am, fs) ==
  IF fs["models"].tf = "good" THEN [model |-> TFModel("original"), model_loaded |-> TRUE]
  ELSE IF fs["models"].tf = "corrupt" THEN [am EXCEPT !.model_loaded = FALSE]
  ELSE am

\* __init__
ASLModelInit(fs) == load_model([model |-> NoModel, model_loaded |-> FALSE], fs)

\* which predictor ASLModel.predict runs
DefaultServes(am) ==
  IF am.model_loaded /\ am.model # NoModel THEN am.model
  ELSE [kind |-> "rule_based", owner |-> "original"]

----------------------------------------------------------------------------
(* run_training *)

\* where the pipeline raises, chosen by the environment ("none": nowhere)
FailPoints == {"none", "rf_dump", "tf_fit", "tf_save", "meta_write"}

\* accuracies in tenths
Accuracies == {0, 10}

\* what the environment decides about one training run: where it raises,
\* and the held-out accuracies of the two models when it does not
TrainingOutcomes ==
  {[fail |-> f, rf_accuracy |-> 0, tf_accuracy |-> 0] : f \in FailPoints \ {"none"}}
  \cup {[fail |-> "none", rf_accuracy |-> ra, tf_accuracy |-> ta] : ra, ta \in Accuracies}

Max2(a, b) == IF a >= b THEN a ELSE b

RECURSIVE Assemble(_, _, _)
\* the loop over current_gestures building X and y, as one list of
\* [feature, label] pairs (X.extend(features); y.extend(labels))
Assemble(tc, current_gestures, i) ==
  IF i > Len(current_gestures) THEN <<>>
  ELSE LET g == current_gestures[i]
           features == GetList(tc.training_features, g)
           labels == GetList(tc.training_labels, g)
           part == IF Len(features) > 0
                   THEN [k \in 1..Len(features) |->
                           [feature |-> features[k],
                            label |-> IF k <= Len(labels) THEN labels[k] ELSE -1]]
                   ELSE <<>>
       IN part \o Assemble(tc, current_gestures, i + 1)

TargetGestures(is_admin_level, lesson_id) ==
  IF is_admin_level /\ lesson_id # None THEN LESSON_GESTURES(lesson_id) ELSE ORIGINAL_LABELS

\* mutant: clean_old_models is called for a lesson run as well
run_training_cleans_always(tc, fs, is_admin_level, lesson_id, fail, rf_accuracy, tf_accuracy) ==
  LET adm == is_admin_level /\ lesson_id # None
      current_gestures == TargetGestures(is_admin_level, lesson_id)
      Xy == Assemble(tc, current_gestures, 1)
      out == IF adm THEN lesson_id ELSE "models"
      Failed(f) == [tc |-> tc, fs |-> f, ok |-> FALSE, accuracy |-> 0]
      fs1 == makedirs(clean_old_models(fs), out)
      fs2 == [fs1 EXCEPT ![out].pkl = "good"]
      fs3 == [fs2 EXCEPT ![out].tf = "good"]
      fs4 == [fs3 EXCEPT ![out].meta = "good"]
  IN  IF Len(Xy) = 0 THEN Failed(fs)
      ELSE IF Len(Xy) = 1 THEN Failed(fs1)
      ELSE IF fail = "rf_dump" THEN Failed(fs1)
      ELSE IF Len(Xy) = 2 THEN Failed(fs2)
      ELSE IF fail = "tf_fit" THEN Failed(fs2)
      ELSE IF fail = "tf_save" THEN Failed(fs2)
      ELSE IF fail = "meta_write" THEN Failed(fs3)
      ELSE [tc |-> [tc EXCEPT !.training_features = EmptyDict,
                              !.training_labels = EmptyDict],
            fs |-> IF is_admin_level THEN fs4 ELSE cleanup_duplicates(fs4),
            ok |-> TRUE, accuracy |-> Max2(rf_accuracy, tf_accuracy)]

\* mutant: the output directory is prepared before the emptiness test
run_training_prepares_first(tc, fs, is_admin_level, lesson_id, fail, rf_accuracy, tf_accuracy) ==
  LET adm == is_admin_level /\ lesson_id # None
      current_gestures == TargetGestures(is_admin_level, lesson_id)
      Xy == Assemble(tc, current_gestures, 1)
      out == IF adm THEN lesson_id ELSE "models"
      Failed(f) == [tc |-> tc, fs |-> f, ok |-> FALSE, accuracy |-> 0]
      fs1 == IF adm THEN makedirs(fs, out) ELSE clean_old_models(fs)
      fs2 == [fs1 EXCEPT ![out].pkl = "good"]
      fs3 == [fs2 EXCEPT ![out].tf = "good"]
      fs4 == [fs3 EXCEPT ![out].meta = "good"]
  IN  IF Len(Xy) = 0 THEN Failed(fs1)
      ELSE IF Len(Xy) = 1 THEN Failed(fs1)
      ELSE IF fail = "rf_dump" THEN Failed(fs1)
      ELSE IF Len(Xy) = 2 THEN Failed(fs2)
      ELSE IF fail = "tf_fit" THEN Failed(fs2)
      ELSE IF fail = "tf_save" THEN Failed(fs2)
      ELSE IF fail = "meta_write" THEN Failed(fs3)
      ELSE [tc |-> [tc EXCEPT !.training_features = EmptyDict,
                              !.training_labels = EmptyDict],
            fs |-> IF is_admin_level THEN fs4 ELSE cleanup_duplicates(fs4),
            ok |-> TRUE, accuracy |-> Max2(rf_accuracy, tf_accuracy)]

\* mutant: a failed run clears the buffers as a successful one does
run_training_clears_on_failure(tc, fs, is_admin_level, lesson_id, fail, rf_accuracy, tf_accuracy) ==
  LET adm == is_admin_level /\ lesson_id # None
      current_gestures == TargetGestures(is_admin_level, lesson_id)
      Xy == Assemble(tc, current_gestures, 1)
      out == IF adm THEN lesson_id ELSE "models"
      owner == IF is_admin_level THEN lesson_id ELSE "original"
      Failed(f) == [tc |-> [tc EXCEPT !.training_features = EmptyDict,
                                        !.training_labels = EmptyDict],
                    fs |-> f, ok |-> FALSE, accuracy |-> 0]
      fs1 == IF adm THEN makedirs(fs, out) ELSE clean_old_models(fs)
      fs2 == [fs1 EXCEPT ![out].pkl = "good"]
      fs3 == [fs2 EXCEPT ![out].tf = "good"]
      fs4 == [fs3 EXCEPT ![out].meta = "good"]
  IN  IF Len(Xy) = 0 THEN Failed(fs)
      \* train_test_split(test_size=0.2) of a single sample raises ValueError,
      \* with and without stratify
      ELSE IF Len(Xy) = 1 THEN Failed(fs1)
      ELSE IF fail = "rf_dump" THEN Failed(fs1)
      \* of two samples the split leaves one to train on: fit(validation_split=0.2)
      \* cannot split a single sample and raises
      ELSE IF Len(Xy) = 2 THEN Failed(fs2)
      ELSE IF fail = "tf_fit" THEN Failed(fs2)
      ELSE IF fail = "tf_save" THEN Failed(fs2)
      ELSE IF fail = "meta_write" THEN Failed(fs3)
      ELSE [tc |-> [tc EXCEPT !.training_features = EmptyDict,
                              !.training_labels = EmptyDict],
            fs |-> IF is_admin_level THEN fs4 ELSE cleanup_duplicates(fs4),
            ok |-> TRUE, accuracy |-> Max2(rf_accuracy, tf_accuracy)]

\* run_training: [tc, fs, ok, accuracy]
run_training(tc, fs, is_admin_level, lesson_id, fail, rf_accuracy, tf_accuracy) ==
  LET adm == is_admin_level /\ lesson_id # None
      current_gestures == TargetGestures(is_admin_level, lesson_id)
      Xy == Assemble(tc, current_gestures, 1)
      out == IF adm THEN lesson_id ELSE "models"
      owner == IF is_admin_level THEN lesson_id ELSE "original"
      Failed(f) == [tc |-> tc, fs |-> f, ok |-> FALSE, accuracy |-> 0]
      fs1 == IF adm THEN makedirs(fs, out) ELSE clean_old_models(fs)
      fs2 == [fs1 EXCEPT ![out].pkl = "good"]
      fs3 == [fs2 EXCEPT ![out].tf = "good"]
      fs4 == [fs3 EXCEPT ![out].meta = "good"]
  IN  IF Len(Xy) = 0 THEN Failed(fs)
      \* train_test_split(test_size=0.2) of a single sample raises ValueError,
      \* with and without stratify
      ELSE IF Len(Xy) = 1 THEN Failed(fs1)
      ELSE IF fail = "rf_dump" THEN Failed(fs1)
      \* of two samples the split leaves one to train on: fit(validation_split=0.2)
      \* cannot split a single sample and raises
      ELSE IF Len(Xy) = 2 THEN Failed(fs2)
      ELSE IF fail = "tf_fit" THEN Failed(fs2)
      ELSE IF fail = "tf_save" THEN Failed(fs2)
      ELSE IF fail = "meta_write" THEN Failed(fs3)
      ELSE [tc |-> [tc EXCEPT !.training_features = EmptyDict,
                              !.training_labels = EmptyDict],
            fs |-> IF is_admin_level THEN fs4 ELSE cleanup_duplicates(fs4),
            ok |-> TRUE, accuracy |-> Max2(rf_accuracy, tf_accuracy)]

----------------------------------------------------------------------------
(* IsolatedLevelModelManager *)

LevelManagerInit ==
  [current_level_labels |-> <<>>,
   current_level_id |-> None,
   is_practice_mode |-> FALSE,
   current_level_model |-> NoModel,
   current_level_rf_model |-> NoModel,
   current_level_metadata |-> NoMetadata]

\* _load_level_model: <<new manager, returned bool>>
load_level_model(lm, fs, lesson_id) ==
  LET d == fs[lesson_id]
      lm1 == IF d.meta = "good"
             THEN [lm EXCEPT !.current_level_metadata = MetadataOf(lesson_id)] ELSE lm
      lm2 == IF d.tf = "good" THEN [lm1 EXCEPT !.current_level_model = TFModel(lesson_id)]
             ELSE IF d.tf = "corrupt" THEN [lm1 EXCEPT !.current_level_model = NoModel]
             ELSE lm1
      lm3 == IF d.pkl = "good" THEN [lm2 EXCEPT !.current_level_rf_model = RFModel(lesson_id)]
             ELSE IF d.pkl = "corrupt" THEN [lm2 EXCEPT !.current_level_rf_model = NoModel]
             ELSE lm2
  IN  IF ~d.exists THEN <<lm, FALSE>>
      \* json.load raises on a corrupt metadata file: the outer except returns False
      ELSE IF d.meta = "corrupt" THEN <<lm, FALSE>>
      ELSE <<lm3, lm3.current_level_model # NoModel \/ lm3.current_level_rf_model # NoModel>>

\* enter_practice_mode: <<new manager, returned bool>>
enter_practice_mode(lm, fs, lesson_id) ==
  LET lm1 == [lm EXCEPT !.current_level_id = lesson_id,
                        !.current_level_labels = PRACTICE_LEVEL_GESTURES(lesson_id)]
      r == load_level_model(lm1, fs, lesson_id)
  IN  IF r[2] THEN <<[r[1] EXCEPT !.is_practice_mode = TRUE], TRUE>>
      ELSE <<r[1], FALSE>>

\* mutant: exit toggles the flag instead of clearing it
exit_practice_mode_toggles(lm) ==
  [lm EXCEPT !.is_practice_mode = ~lm.is_practice_mode,
             !.current_level_labels = <<>>,
             !.current_level_id = None,
             !.current_level_model = NoModel,
             !.current_level_rf_model = NoModel,
             !.current_level_metadata = NoMetadata]

exit_practice_mode(lm) ==
  [lm EXCEPT !.is_practice_mode = FALSE,
             !.current_level_labels = <<>>,
             !.current_level_id = None,
             !.current_level_model = NoModel,
             !.current_level_rf_model = NoModel,
             !.current_level_metadata = NoMetadata]

\* which predictor predict_with_level_model runs
LevelServes(lm) ==
  IF ~lm.is_practice_mode THEN [kind |-> "no_practice_mode", owner |-> "none"]
  ELSE IF lm.current_level_model # NoModel THEN lm.current_level_model
  ELSE IF lm.current_level_rf_model # NoModel THEN lm.current_level_rf_model
  ELSE [kind |-> "no_model", owner |-> "none"]

get_level_info(lm) ==
  [is_practice_mode |-> lm.is_practice_mode,
   current_level |-> lm.current_level_id,
   allowed_gestures |-> lm.current_level_labels,
   has_level_model |-> lm.current_level_model # NoModel \/ lm.current_level_rf_model # NoModel,
   model_metadata |-> lm.current_level_metadata]

NoLevelInfo ==
  [is_practice_mode |-> FALSE, current_level |-> None, allowed_gestures |-> <<>>,
   has_level_model |-> FALSE, model_metadata |-> NoMetadata]

----------------------------------------------------------------------------
(* Prediction.  What a classifier answers for a feature vector is decided by  *)
(* the environment: the call raises, or it yields a class index and a        *)
(* confidence (in tenths).  The rule-based heuristic reads only which of the *)
(* five fingers are up (1 = thumb .. 5 = pinky).                             *)

\* largest class index a classifier answers; vocabularies hold 4 or 5 gestures
MaxClassIndex == 5

ModelConfidences == {2, 9}

Inferences ==
  {[raises |-> TRUE, class |-> 0, confidence |-> 0]}
  \cup {[raises |-> FALSE, class |-> c, confidence |-> q] :
           c \in 0..MaxClassIndex, q \in ModelConfidences}

FingerPatterns == [1..5 -> BOOLEAN]

\* ASLModel.rule_based_prediction
rule_based_prediction(fingers_up) ==
  LET fingers_up_count == Cardinality({i \in 1..5 : fingers_up[i]})
  IN  IF fingers_up_count = 5 THEN <<"Hello", 8>>
      ELSE IF fingers_up_count = 2 /\ fingers_up[2] /\ fingers_up[5] THEN <<"I Love You", 8>>
      ELSE IF fingers_up_count = 1 /\ fingers_up[1] THEN <<"Yes", 7>>
      ELSE IF fingers_up_count = 2 /\ fingers_up[2] /\ fingers_up[3] THEN <<"No", 7>>
      ELSE IF fingers_up_count = 0 THEN <<"Thank You", 6>>
      ELSE <<"Unknown", 3>>

\* mutant: an inference that raises is answered without the heuristic
predict_no_fallback(am, infer, fingers_up) ==
  IF am.model_loaded /\ am.model # NoModel
  THEN IF infer.raises THEN <<"Unknown", 0>>
       ELSE <<IF infer.class < Len(ORIGINAL_LABELS)
              THEN ORIGINAL_LABELS[infer.class + 1] ELSE "Unknown",
              infer.confidence>>
  ELSE rule_based_prediction(fingers_up)

\* ASLModel.predict: <<gesture, confidence>>
predict(am, infer, fingers_up) ==
  IF am.model_loaded /\ am.model # NoModel
  THEN IF infer.raises THEN rule_based_prediction(fingers_up)
       ELSE <<IF infer.class < Len(ORIGINAL_LABELS)
              THEN ORIGINAL_LABELS[infer.class + 1] ELSE "Unknown",
              infer.confidence>>
  ELSE rule_based_prediction(fingers_up)

\* the label list predict_with_level_model resolves a class index against
gesture_labels(lm) ==
  IF lm.current_level_metadata.present
  THEN lm.current_level_metadata.gestures ELSE lm.current_level_labels

\* mutant: the range test admits the index len(gesture_labels); indexing
\* then raises and the except clause answers
predict_with_level_model_off_by_one(lm, infer) ==
  IF ~lm.is_practice_mode THEN <<"No practice mode", 0>>
  ELSE IF lm.current_level_model = NoModel /\ lm.current_level_rf_model = NoModel
       THEN <<"No model", 0>>
  ELSE IF infer.raises THEN <<"Error", 0>>
  ELSE IF infer.class < Len(gesture_labels(lm))
       THEN <<gesture_labels(lm)[infer.class + 1], infer.confidence>>
  ELSE IF infer.class = Len(gesture_labels(lm)) THEN <<"Error", 0>>
  ELSE <<"No model", 0>>

\* predict_with_level_model: <<gesture, confidence>>; the neural branch and
\* the ensemble branch differ only in the classifier they call
predict_with_level_model(lm, infer) ==
  IF ~lm.is_practice_mode THEN <<"No practice mode", 0>>
  ELSE IF lm.current_level_model = NoModel /\ lm.current_level_rf_model = NoModel
       THEN <<"No model", 0>>
  ELSE IF infer.raises THEN <<"Error", 0>>
  ELSE IF infer.class < Len(gesture_labels(lm))
       THEN <<gesture_labels(lm)[infer.class + 1], infer.confidence>>
  ELSE <<"No model", 0>>

----------------------------------------------------------------------------
(* Outcome of the last HTTP handler: the status of the body it returns, the   *)
(* number it returns next to the body (200 when it returns the body alone),  *)
(* and for the training endpoints what run_training returned.                *)

Outcome(op, status, code) ==
  [op |-> op, status |-> status, code |-> code, samples |-> 0, ok |-> FALSE,
   accuracy |-> 0, lesson_id |-> None, replaced_samples |-> FALSE,
   level_info |-> NoLevelInfo]

\* some bucket of the collector holds a sample
HasSamples(tc) == \E g \in DOMAIN tc.training_features : Len(tc.training_features[g]) > 0

\* what before_practice keeps of an outcome
Before(o) == [op |-> o.op, ok |-> o.ok, lesson_id |-> o.lesson_id]

----------------------------------------------------------------------------
(* Training endpoints *)

\* mutant: a regular submit under another session id is processed in the
\* current session instead of starting a new one
AddTrainingSampleNoSwitch(session_id, gesture_name, frame) ==
  LET tc  == training_collector
      tc2 == IF tc.current_session = None
             THEN start_training_session(tc, session_id, FALSE, None) ELSE tc
      r   == process_training_frame(tc2, gesture_name, frame)
  IN  /\ IF session_id = None
         THEN /\ last' = Outcome("add_training_sample", "error", 400)
              /\ UNCHANGED training_collector
         ELSE /\ r[2] <= MaxSamples
              /\ training_collector' = r[1]
              /\ last' = IF r[2] = 0
                         THEN Outcome("add_training_sample", "error", 500)
                         ELSE [Outcome("add_training_sample", "success", 200)
                                 EXCEPT !.samples = r[2]]
      /\ UNCHANGED <<pool_vars, trainer_vars, asl_model, isolated_level_manager, manager, files, ws_pc, ws_response,
                     before_practice>>

\* POST /training/add-sample
AddTrainingSample(session_id, gesture_name, frame) ==
  LET tc  == training_collector
      tc1 == IF tc.current_session # None /\ tc.current_session # session_id
             THEN start_training_session(tc, session_id, FALSE, None) ELSE tc
      tc2 == IF tc1.current_session = None
             THEN start_training_session(tc1, session_id, FALSE, None) ELSE tc1
      r   == process_training_frame(tc2, gesture_name, frame)
      dropped == tc1 # tc /\ HasSamples(tc)
  IN  /\ IF session_id = None
         THEN /\ last' = Outcome("add_training_sample", "error", 400)
              /\ UNCHANGED training_collector
         ELSE /\ r[2] <= MaxSamples
              /\ training_collector' = r[1]
              /\ last' = IF r[2] = 0
                         THEN [Outcome("add_training_sample", "error", 500)
                                 EXCEPT !.replaced_samples = dropped]
                         ELSE [Outcome("add_training_sample", "success", 200)
                                 EXCEPT !.replaced_samples = dropped, !.samples = r[2]]
      /\ UNCHANGED <<pool_vars, trainer_vars, asl_model, isolated_level_manager, manager, files, ws_pc, ws_response,
                     before_practice>>

\* mutant: the session is switched before the admin prefix is tested
AddAdminTrainingSampleLateCheck(session_id, lesson_id, gesture_name, frame) ==
  LET tc  == training_collector
      tc1 == IF tc.current_session # None /\ tc.current_session # session_id
             THEN start_training_session(tc, session_id, TRUE, lesson_id) ELSE tc
      tc2 == IF tc1.current_session = None
             THEN start_training_session(tc1, session_id, TRUE, lesson_id) ELSE tc1
      r   == process_training_frame(tc2, gesture_name, frame)
      dropped == tc1 # tc /\ HasSamples(tc)
  IN  /\ IF session_id = None \/ lesson_id = None
         THEN /\ last' = Outcome("add_admin_training_sample", "error", 400)
              /\ UNCHANGED training_collector
         ELSE IF ~StartsWithAdminLevel(session_id)
         THEN /\ last' = Outcome("add_admin_training_sample", "error", 403)
              /\ training_collector' = tc2
         ELSE /\ r[2] <= MaxSamples
              /\ training_collector' = r[1]
              /\ last' = IF r[2] = 0
                         THEN [Outcome("add_admin_training_sample", "error", 500)
                                 EXCEPT !.replaced_samples = dropped]
                         ELSE [Outcome("add_admin_training_sample", "success", 200)
                                 EXCEPT !.replaced_samples = dropped, !.samples = r[2], !.lesson_id = lesson_id]
      /\ UNCHANGED <<pool_vars, trainer_vars, asl_model, isolated_level_manager, manager, files, ws_pc, ws_response,
                     before_practice>>

\* POST /admin/training/add-sample
AddAdminTrainingSample(session_id, lesson_id, gesture_name, frame) ==
  LET tc  == training_collector
      tc1 == IF tc.current_session # None /\ tc.current_session # session_id
             THEN start_training_session(tc, session_id, TRUE, lesson_id) ELSE tc
      tc2 == IF tc1.current_session = None
             THEN start_training_session(tc1, session_id, TRUE, lesson_id) ELSE tc1
      r   == process_training_frame(tc2, gesture_name, frame)
      dropped == tc1 # tc /\ HasSamples(tc)
  IN  /\ IF session_id = None \/ lesson_id = None
         THEN /\ last' = Outcome("add_admin_training_sample", "error", 400)
              /\ UNCHANGED training_collector
         ELSE IF ~StartsWithAdminLevel(session_id)
         THEN /\ last' = Outcome("add_admin_training_sample", "error", 403)
              /\ UNCHANGED training_collector
         ELSE /\ r[2] <= MaxSamples
              /\ training_collector' = r[1]
              /\ last' = IF r[2] = 0
                         THEN [Outcome("add_admin_training_sample", "error", 500)
                                 EXCEPT !.replaced_samples = dropped]
                         ELSE [Outcome("add_admin_training_sample", "success", 200)
                                 EXCEPT !.replaced_samples = dropped, !.samples = r[2], !.lesson_id = lesson_id]
      /\ UNCHANGED <<pool_vars, trainer_vars, asl_model, isolated_level_manager, manager, files, ws_pc, ws_response,
                     before_practice>>

\* mutant: a successful /training/complete does not reload the classifier
CompleteTrainingNoReload(session_id, fail, rf_accuracy, tf_accuracy) ==
  LET t == run_training(training_collector, files, FALSE, None, fail, rf_accuracy, tf_accuracy)
  IN  /\ IF session_id = None
         THEN /\ last' = Outcome("complete_training", "error", 400)
              /\ UNCHANGED <<training_collector, files, asl_model>>
         ELSE /\ training_collector' = t.tc
              /\ files' = t.fs
              /\ IF t.ok
                 THEN /\ asl_model' = asl_model
                      /\ last' = [Outcome("complete_training", "success", 200)
                                    EXCEPT !.ok = TRUE, !.accuracy = t.accuracy]
                 ELSE /\ asl_model' = [model |-> NoModel, model_loaded |-> FALSE]
                      /\ last' = Outcome("complete_training", "error", 500)
      /\ UNCHANGED <<pool_vars, trainer_vars, isolated_level_manager, manager, ws_pc, ws_response, before_practice>>

\* POST /training/complete
CompleteTraining(session_id, fail, rf_accuracy, tf_accuracy) ==
  LET t == run_training(training_collector, files, FALSE, None, fail, rf_accuracy, tf_accuracy)
  IN  /\ IF session_id = None
         THEN /\ last' = Outcome("complete_training", "error", 400)
              /\ UNCHANGED <<training_collector, files, asl_model>>
         ELSE /\ training_collector' = t.tc
              /\ files' = t.fs
              /\ IF t.ok
                 THEN /\ asl_model' = load_model(asl_model, t.fs)
                      /\ last' = [Outcome("complete_training", "success", 200)
                                    EXCEPT !.ok = TRUE, !.accuracy = t.accuracy]
                 ELSE /\ asl_model' = [model |-> NoModel, model_loaded |-> FALSE]
                      /\ last' = Outcome("complete_training", "error", 500)
      /\ UNCHANGED <<pool_vars, trainer_vars, isolated_level_manager, manager, ws_pc, ws_response, before_practice>>

\* mutant: a successful lesson training reloads the classifiers of the lesson
\* when it is the active one
CompleteAdminLevelTrainingReloads(session_id, lesson_id, fail, rf_accuracy, tf_accuracy) ==
  LET t == run_training(training_collector, files, TRUE, lesson_id, fail, rf_accuracy, tf_accuracy)
      lm == isolated_level_manager
  IN  /\ IF session_id = None \/ lesson_id = None
         THEN /\ last' = Outcome("complete_admin_level_training", "error", 400)
              /\ UNCHANGED <<training_collector, files, isolated_level_manager>>
         ELSE IF ~StartsWithAdminLevel(session_id)
         THEN /\ last' = Outcome("complete_admin_level_training", "error", 403)
              /\ UNCHANGED <<training_collector, files, isolated_level_manager>>
         ELSE /\ training_collector' = t.tc
              /\ files' = t.fs
              /\ isolated_level_manager' =
                    IF t.ok /\ lm.is_practice_mode /\ lm.current_level_id = lesson_id
                    THEN enter_practice_mode(lm, t.fs, lesson_id)[1] ELSE lm
              /\ last' = IF t.ok
                         THEN [Outcome("complete_admin_level_training", "success", 200)
                                 EXCEPT !.ok = TRUE, !.accuracy = t.accuracy,
                                        !.lesson_id = lesson_id]
                         ELSE [Outcome("complete_admin_level_training", "error", 500)
                                 EXCEPT !.lesson_id = lesson_id]
      /\ UNCHANGED <<pool_vars, trainer_vars, asl_model, manager, ws_pc, ws_response, before_practice>>

\* POST /admin/training/complete-level
CompleteAdminLevelTraining(session_id, lesson_id, fail, rf_accuracy, tf_accuracy) ==
  LET t == run_training(training_collector, files, TRUE, lesson_id, fail, rf_accuracy, tf_accuracy)
  IN  /\ IF session_id = None \/ lesson_id = None
         THEN /\ last' = Outcome("complete_admin_level_training", "error", 400)
              /\ UNCHANGED <<training_collector, files>>
         ELSE IF ~StartsWithAdminLevel(session_id)
         THEN /\ last' = Outcome("complete_admin_level_training", "error", 403)
              /\ UNCHANGED <<training_collector, files>>
         ELSE /\ training_collector' = t.tc
              /\ files' = t.fs
              /\ last' = IF t.ok
                         THEN [Outcome("complete_admin_level_training", "success", 200)
                                 EXCEPT !.ok = TRUE, !.accuracy = t.accuracy,
                                        !.lesson_id = lesson_id]
                         ELSE [Outcome("complete_admin_level_training", "error", 500)
                                 EXCEPT !.lesson_id = lesson_id]
      /\ UNCHANGED <<pool_vars, trainer_vars, asl_model, isolated_level_manager, manager, ws_pc, ws_response,
                     before_practice>>

----------------------------------------------------------------------------
(* Practice endpoints *)

\* POST /practice/start
StartPracticeMode(lesson_id) ==
  LET r == enter_practice_mode(isolated_level_manager, files, lesson_id)
  IN  /\ IF lesson_id = None
         THEN /\ last' = Outcome("start_practice_mode", "error", 400)
              /\ UNCHANGED isolated_level_manager
         ELSE IF ~files[lesson_id].exists
         THEN /\ last' = [Outcome("start_practice_mode", "error", 404)
                            EXCEPT !.lesson_id = lesson_id]
              /\ UNCHANGED isolated_level_manager
         ELSE /\ isolated_level_manager' = r[1]
              /\ last' = IF r[2]
                         THEN [Outcome("start_practice_mode", "success", 200)
                                 EXCEPT !.ok = TRUE, !.lesson_id = lesson_id,
                                        !.level_info = get_level_info(r[1])]
                         ELSE [Outcome("start_practice_mode", "error", 500)
                                 EXCEPT !.lesson_id = lesson_id]
      /\ before_practice' = Before(last)
      /\ UNCHANGED <<pool_vars, trainer_vars, asl_model, training_collector, manager, files, ws_pc, ws_response>>

\* mutant: leaving practice mode also unloads the default classifier
StopPracticeModeUnloadsDefault ==
  /\ isolated_level_manager' = exit_practice_mode(isolated_level_manager)
  /\ asl_model' = [model |-> NoModel, model_loaded |-> FALSE]
  /\ last' = [Outcome("stop_practice_mode", "success", 200) EXCEPT !.ok = TRUE]
  /\ before_practice' = Before(last)
  /\ UNCHANGED <<pool_vars, trainer_vars, training_collector, manager, files, ws_pc, ws_response>>

\* POST /practice/stop
StopPracticeMode ==
  /\ isolated_level_manager' = exit_practice_mode(isolated_level_manager)
  /\ last' = [Outcome("stop_practice_mode", "success", 200) EXCEPT !.ok = TRUE]
  /\ before_practice' = Before(last)
  /\ UNCHANGED <<pool_vars, trainer_vars, asl_model, training_collector, manager, files, ws_pc, ws_response>>

\* GET /practice/status
GetPracticeStatus ==
  /\ last' = [Outcome("get_practice_status", "success", 200)
                EXCEPT !.level_info = get_level_info(isolated_level_manager)]
  /\ before_practice' = Before(last)
  /\ UNCHANGED <<pool_vars, trainer_vars, asl_model, training_collector, isolated_level_manager, manager,
                 files, ws_pc, ws_response>>

----------------------------------------------------------------------------
(* Websocket endpoint /asl-ws and ConnectionManager *)

Conns == {"ws1"}

\* what a received text message turns out to be
MsgKinds == {"bad_json", "no_frame", "bad_image", "nohand", "hand"}

NoServe == [kind |-> "none", owner |-> "none"]

NoResponse ==
  [error |-> "", hand_detected |-> FALSE, route |-> "none", served |-> NoServe,
   has_mode |-> FALSE, practice_mode |-> FALSE, practice_level |-> None]

\* mutant: disconnect leaves the registry as it is
RemoveNothing(seq, x) == seq

\* list.remove on a list that holds x at most once
Remove(seq, x) == SelectSeq(seq, LAMBDA y : y # x)

\* mutant: the mode fields of the response are read after the handler has
\* been suspended and a /practice/stop has run in between
FrameResponseLateRead(lm, am, msg) ==
  IF msg = "no_frame" THEN [NoResponse EXCEPT !.error = "No frame data received"]
  ELSE IF msg = "bad_image" THEN [NoResponse EXCEPT !.error = "Failed to decode image"]
  ELSE IF msg = "nohand" THEN NoResponse
  ELSE [error |-> "", hand_detected |-> TRUE,
        route |-> IF lm.is_practice_mode THEN "level" ELSE "default",
        served |-> IF lm.is_practice_mode THEN LevelServes(lm) ELSE DefaultServes(am),
        has_mode |-> TRUE,
        practice_mode |-> exit_practice_mode(lm).is_practice_mode,
        practice_level |-> exit_practice_mode(lm).current_level_id]

\* the response the handler builds for one decoded message, from the
\* receive_text await to the send_json await
FrameResponse(lm, am, msg) ==
  IF msg = "no_frame" THEN [NoResponse EXCEPT !.error = "No frame data received"]
  ELSE IF msg = "bad_image" THEN [NoResponse EXCEPT !.error = "Failed to decode image"]
  ELSE IF msg = "nohand" THEN NoResponse
  ELSE [error |-> "", hand_detected |-> TRUE,
        route |-> IF lm.is_practice_mode THEN "level" ELSE "default",
        served |-> IF lm.is_practice_mode THEN LevelServes(lm) ELSE DefaultServes(am),
        has_mode |-> TRUE,
        practice_mode |-> lm.is_practice_mode,
        practice_level |-> lm.current_level_id]

\* manager.connect: accept and register
WsConnect(c) ==
  /\ ws_pc[c] = "closed"
  /\ ws_pc' = [ws_pc EXCEPT ![c] = "recv"]
  /\ manager' = [manager EXCEPT !.active_connections = Append(@, c)]
  /\ ws_response' = [ws_response EXCEPT ![c] = NoResponse]
  /\ UNCHANGED <<pool_vars, trainer_vars, asl_model, training_collector, isolated_level_manager, files, last,
                 before_practice>>

\* receive_text returns a message: the loop body up to its send_json
WsReceive(c, msg) ==
  /\ ws_pc[c] = "recv"
  /\ IF msg = "bad_json"
     THEN \* json.loads raises: except Exception -> manager.disconnect
          /\ ws_pc' = [ws_pc EXCEPT ![c] = "closed"]
          /\ manager' = [manager EXCEPT !.active_connections = Remove(@, c)]
          /\ UNCHANGED ws_response
     ELSE /\ ws_pc' = [ws_pc EXCEPT ![c] = "send"]
          /\ ws_response' = [ws_response EXCEPT
                               ![c] = FrameResponse(isolated_level_manager, asl_model, msg)]
          /\ UNCHANGED manager
  /\ UNCHANGED <<pool_vars, trainer_vars, asl_model, training_collector, isolated_level_manager, files, last,
                 before_practice>>

\* send_json completes; back to receive_text
WsSend(c) ==
  /\ ws_pc[c] = "send"
  /\ ws_pc' = [ws_pc EXCEPT ![c] = "recv"]
  /\ UNCHANGED <<pool_vars, trainer_vars, asl_model, training_collector, isolated_level_manager, manager,
                 files, ws_response, last, before_practice>>

\* the client goes away: WebSocketDisconnect at receive_text or send_json
WsDisconnect(c) ==
  /\ ws_pc[c] \in {"recv", "send"}
  /\ ws_pc' = [ws_pc EXCEPT ![c] = "closed"]
  /\ manager' = [manager EXCEPT !.active_connections = Remove(@, c)]
  /\ UNCHANGED <<pool_vars, trainer_vars, asl_model, training_collector, isolated_level_manager, files,
                 ws_response, last, before_practice>>

----------------------------------------------------------------------------
(* Worker-pool server: websocket endpoint /asl-ws, OptimizedConnectionManager, *)
(* ThreadPoolExecutor and the lock around predict_fast.  The handler          *)
(* coroutine is cut at its awaits (receive_text, run_in_executor, send_json); *)
(* a pool job is cut where it can block or be overtaken: at its start, at the *)
(* acquisition of inference_lock and at its return.                           *)

PoolConns == {"p1", "p2"}

\* messages one websocket sends at most
MaxFrames == 2

MAX_WORKERS == 4

\* what a received text message turns out to be: not JSON; JSON that is not
\* an object (a number); an object without "frame"; an object with "frame"
PoolMsgKinds == {"bad_json", "not_object", "no_frame", "frame"}

\* what the image of a frame turns out to be when the job decodes it
ImageKinds == {"bad_image", "nohand", "hand"}

\* a job is named by its websocket and the number of the message it serves
JobIds == PoolConns \X (1..(MaxFrames + 1))

NoJob == <<"none", 0>>

NoOutbox == [frame |-> 0, kind |-> "none"]

HandlerOff == [pc |-> "off", frame |-> 0, is_frame |-> FALSE, outbox |-> NoOutbox]

\* a terminated handler; the log of a closed websocket is dropped with it
HandlerClosed == [HandlerOff EXCEPT !.pc = "closed"]

\* a job inside mp_hands.process (extract_hand_landmarks_fast), by what its
\* image shows
Extracting == {"extract_nohand", "extract_hand"}

\* jobs a worker thread is executing
Busy(ex) ==
  {j \in DOMAIN ex.jobs : ex.jobs[j] \in {"running", "lock_wait", "predict"} \cup Extracting}

\* jobs submitted and not finished: queued or executing
Outstanding(ex) ==
  {j \in DOMAIN ex.jobs :
     ex.jobs[j] \in {"queued", "running", "lock_wait", "predict"} \cup Extracting}

Finished == {"done_error", "done_nohand", "done_gesture"}

\* the job the handler of websocket c is waiting for
Awaited(c) == IF handler[c].pc = "wait" THEN <<c, handler[c].frame>> ELSE NoJob

Drop(f, j) == [x \in (DOMAIN f) \ {j} |-> f[x]]

\* a job returns: its future keeps the result while a handler waits for it;
\* a future nobody holds any more is garbage
Return(ex, j, result) ==
  IF \E c \in PoolConns : Awaited(c) = j
  THEN [ex EXCEPT !.jobs[j] = result]
  ELSE [ex EXCEPT !.jobs = Drop(@, j)]

\* manager.connect: accept and register
PoolConnect(c) ==
  /\ handler[c].pc = "new"
  /\ handler' = [handler EXCEPT ![c].pc = "recv"]
  /\ pool_manager' = [pool_manager EXCEPT !.active_connections = Append(@, c)]
  /\ UNCHANGED <<android_vars, trainer_vars, executor, inference_lock, pool_sent>>

\* mutant: the handler submits a frame and returns to receive_text without
\* awaiting the future
PoolReceiveNoWait(c, msg) ==
  LET n == handler[c].frame + 1
  IN  /\ handler[c].pc = "recv"
      /\ n <= MaxFrames
      /\ msg = "frame"
      /\ executor' = [queue |-> Append(executor.queue, <<c, n>>),
                      jobs |-> Put(executor.jobs, <<c, n>>, "queued")]
      /\ handler' = [handler EXCEPT ![c] = [@ EXCEPT !.frame = n, !.is_frame = TRUE]]
      /\ UNCHANGED <<android_vars, trainer_vars, pool_manager, inference_lock, pool_sent>>

\* receive_text returns message number n: the loop body up to its next await
PoolReceive(c, msg) ==
  LET n == handler[c].frame + 1
  IN  /\ handler[c].pc = "recv"
      /\ n <= MaxFrames
      /\ CASE msg = "bad_json" ->
                \* json.JSONDecodeError: an error is sent, then continue
                /\ handler' = [handler EXCEPT ![c] =
                                 [pc |-> "send", frame |-> n, is_frame |-> FALSE,
                                  outbox |-> [frame |-> n, kind |-> "invalid_json"]]]
                /\ UNCHANGED <<pool_manager, executor, pool_sent>>
           [] msg = "not_object" ->
                \* '"frame" not in frame_data' raises TypeError: the outer
                \* except Exception calls manager.disconnect
                /\ handler' = [handler EXCEPT ![c] = HandlerClosed]
                /\ pool_manager' = [pool_manager EXCEPT !.active_connections = Remove(@, c)]
                /\ pool_sent' = [pool_sent EXCEPT ![c] = <<>>]
                /\ UNCHANGED executor
           [] msg = "no_frame" ->
                \* continue, nothing is sent
                /\ handler' = [handler EXCEPT ![c] = [@ EXCEPT !.frame = n, !.is_frame = FALSE]]
                /\ UNCHANGED <<pool_manager, executor, pool_sent>>
           [] msg = "frame" ->
                \* executor.submit, then await future.result(2.0)
                /\ executor' = [queue |-> Append(executor.queue, <<c, n>>),
                                jobs |-> Put(executor.jobs, <<c, n>>, "queued")]
                /\ handler' = [handler EXCEPT ![c] =
                                 [pc |-> "wait", frame |-> n, is_frame |-> TRUE,
                                  outbox |-> NoOutbox]]
                /\ UNCHANGED <<pool_manager, pool_sent>>
      /\ UNCHANGED <<android_vars, trainer_vars, inference_lock>>

\* a worker thread takes the oldest work item
WorkerStart ==
  /\ executor.queue # <<>>
  /\ Cardinality(Busy(executor)) < MAX_WORKERS
  /\ executor' = [queue |-> Tail(executor.queue),
                  jobs |-> [executor.jobs EXCEPT ![Head(executor.queue)] = "running"]]
  /\ UNCHANGED <<android_vars, trainer_vars, pool_manager, handler, inference_lock, pool_sent>>

\* process_frame_sync up to the call of mp_hands.process: the image is
\* decoded, resized and converted; no lock is taken
WorkerFrame(j, image) ==
  /\ j \in DOMAIN executor.jobs
  /\ executor.jobs[j] = "running"
  /\ executor' = IF image = "bad_image" THEN Return(executor, j, "done_error")
                 ELSE IF image = "nohand" THEN [executor EXCEPT !.jobs[j] = "extract_nohand"]
                 ELSE [executor EXCEPT !.jobs[j] = "extract_hand"]
  /\ UNCHANGED <<android_vars, trainer_vars, pool_manager, handler, inference_lock, pool_sent>>

\* mp_hands.process returns: without a hand process_frame_sync returns its
\* response, with a hand it goes on to predict_fast
WorkerExtract(j) ==
  /\ j \in DOMAIN executor.jobs
  /\ executor.jobs[j] \in Extracting
  /\ executor' = IF executor.jobs[j] = "extract_nohand"
                 THEN Return(executor, j, "done_nohand")
                 ELSE [executor EXCEPT !.jobs[j] = "lock_wait"]
  /\ UNCHANGED <<android_vars, trainer_vars, pool_manager, handler, inference_lock, pool_sent>>

\* mutant: predict_fast runs without taking inference_lock
WorkerAcquireUnlocked(j) ==
  /\ j \in DOMAIN executor.jobs
  /\ executor.jobs[j] = "lock_wait"
  /\ inference_lock' = j
  /\ executor' = [executor EXCEPT !.jobs[j] = "predict"]
  /\ UNCHANGED <<android_vars, trainer_vars, pool_manager, handler, pool_sent>>

\* predict_fast: with self.inference_lock
WorkerAcquire(j) ==
  /\ j \in DOMAIN executor.jobs
  /\ executor.jobs[j] = "lock_wait"
  /\ inference_lock = NoJob
  /\ inference_lock' = j
  /\ executor' = [executor EXCEPT !.jobs[j] = "predict"]
  /\ UNCHANGED <<android_vars, trainer_vars, pool_manager, handler, pool_sent>>

\* predict_fast returns (the model's answer or the rule-based one), the lock
\* is released and process_frame_sync returns its response
WorkerPredict(j) ==
  /\ j \in DOMAIN executor.jobs
  /\ executor.jobs[j] = "predict"
  /\ inference_lock' = IF inference_lock = j THEN NoJob ELSE inference_lock
  /\ executor' = Return(executor, j, "done_gesture")
  /\ UNCHANGED <<android_vars, trainer_vars, pool_manager, handler, pool_sent>>

\* future.result returns within the timeout: the result is sent
PoolResult(c) ==
  LET j == <<c, handler[c].frame>>
  IN  /\ handler[c].pc = "wait"
      /\ executor.jobs[j] \in Finished
      /\ handler' = [handler EXCEPT ![c].pc = "send",
                                    ![c].outbox = [frame |-> handler[c].frame, kind |-> "result"]]
      /\ executor' = [executor EXCEPT !.jobs = Drop(@, j)]
      /\ UNCHANGED <<android_vars, trainer_vars, pool_manager, inference_lock, pool_sent>>

\* mutant: a timeout ends the handler like any other failure of the connection
PoolTimeoutCloses(c) ==
  LET j == <<c, handler[c].frame>>
  IN  /\ handler[c].pc = "wait"
      /\ executor.jobs[j] \notin Finished
      /\ handler' = [handler EXCEPT ![c] = HandlerClosed]
      /\ pool_manager' = [pool_manager EXCEPT !.active_connections = Remove(@, c)]
      /\ pool_sent' = [pool_sent EXCEPT ![c] = <<>>]
      /\ UNCHANGED <<android_vars, trainer_vars, executor, inference_lock>>

\* future.result(2.0) raises TimeoutError: except Exception sends an error
\* for this frame; the job stays in the pool
PoolTimeout(c) ==
  LET j == <<c, handler[c].frame>>
  IN  /\ handler[c].pc = "wait"
      /\ executor.jobs[j] \notin Finished
      /\ handler' = [handler EXCEPT ![c].pc = "send",
                                    ![c].outbox = [frame |-> handler[c].frame, kind |-> "timeout"]]
      /\ UNCHANGED <<android_vars, trainer_vars, pool_manager, executor, inference_lock, pool_sent>>

\* send_json completes; back to receive_text
PoolSend(c) ==
  /\ handler[c].pc = "send"
  /\ pool_sent' = [pool_sent EXCEPT ![c] = Append(@, handler[c].outbox)]
  /\ handler' = [handler EXCEPT ![c].pc = "recv", ![c].outbox = NoOutbox]
  /\ UNCHANGED <<android_vars, trainer_vars, pool_manager, executor, inference_lock>>

\* the client goes away: receive_text or send_json raises, the outer except
\* clauses call manager.disconnect
PoolDisconnect(c) ==
  /\ handler[c].pc \in {"recv", "send"}
  /\ handler' = [handler EXCEPT ![c] = HandlerClosed]
  /\ pool_manager' = [pool_manager EXCEPT !.active_connections = Remove(@, c)]
  /\ pool_sent' = [pool_sent EXCEPT ![c] = <<>>]
  /\ UNCHANGED <<android_vars, trainer_vars, executor, inference_lock>>

----------------------------------------------------------------------------
(* Offline trainer ("train_model_android.py").  Its working directory is    *)
(* given by the entries of models/ (when that directory exists) and the     *)
(* files next to the script.                                                 *)

\* entries models/ may hold: the two model files, another file with the asl_
\* prefix, and the metadata file the server writes there
ModelsEntries == {"asl_model.pkl", "asl_model_tf", "asl_labels.json", "training_metadata.json"}

\* files next to the script: the two exports, the two duplicates, the script
RootEntries ==
  {"asl_data.csv", "android_asl_data.csv", "asl_model_tf", "asl_model.pkl",
   "train_model_android.py"}

our_files == {"asl_model.pkl", "asl_model_tf"}

\* str.startswith("asl_") on the entry names in use
StartsWithAsl(item) == item \in {"asl_model.pkl", "asl_model_tf", "asl_labels.json", "asl_data.csv"}

\* safe_targets[:-1] outside models/
root_targets == {"asl_data.csv", "android_asl_data.csv", "asl_model_tf", "asl_model.pkl"}

\* safe_to_delete: all() over the listing of models/; True without the directory
safe_to_delete(wd) ==
  IF wd.models_dir
  THEN \A item \in wd.models : item \in our_files \/ StartsWithAsl(item)
  ELSE TRUE

\* mutant: models/ is removed whatever it holds
train_model_android_clean_old_models_unconditional(wd) ==
  [wd EXCEPT !.models_dir = TRUE,
             !.models = {},
             !.root = @ \ root_targets,
             !.rmtree_models = wd.models_dir]

\* clean_old_models of the offline trainer: the listed files are removed one
\* by one, models/ is removed as a whole when safe_to_delete, and models/ is
\* created when it is missing
train_model_android_clean_old_models(wd) ==
  LET safe == safe_to_delete(wd)
      listed == wd.models \ our_files
  IN [wd EXCEPT !.models_dir = TRUE,
                !.models = IF safe THEN {} ELSE listed,
                !.root = @ \ root_targets,
                !.rmtree_models = safe /\ wd.models_dir]

\* what load_android_training_data finds: nothing, fewer than 50 samples, or
\* enough to train
DataKinds == {"none", "insufficient", "enough"}

\* train_with_android_data: cleanup first; with enough data the export and
\* the two model files are written and the duplicates removed
TrainWithAndroidData(data) ==
  LET c == train_model_android_clean_old_models(offline)
  IN  /\ offline' = IF data = "enough"
                    THEN [c EXCEPT !.models = @ \cup our_files,
                                   !.root = (@ \cup {"android_asl_data.csv"})
                                              \ {"asl_model_tf", "asl_model.pkl"},
                                   !.data = data]
                    ELSE [c EXCEPT !.data = data]
      /\ UNCHANGED <<android_vars, pool_vars>>

\* the offline trainer has not been run
TrainerIdle ==
  offline = [models_dir |-> FALSE, models |-> {}, root |-> {"train_model_android.py"},
             rmtree_models |-> FALSE, data |-> "not_run"]

----------------------------------------------------------------------------
(* Initial states and specifications *)

FullDir(c) == [exists |-> TRUE, pkl |-> c, tf |-> c, meta |-> c]

\* the artifact directories a server can find at start: nothing, or what
\* earlier training runs and their failures left behind (the last shape: a
\* run that ended inside pickle.dump, after open(rf_path, "wb") had created
\* the file)
ArtifactShapes ==
  {NoDir, EmptyDir, FullDir("good"),
   [EmptyDir EXCEPT !.pkl = "good"],
   [EmptyDir EXCEPT !.pkl = "good", !.tf = "corrupt"],
   [EmptyDir EXCEPT !.pkl = "corrupt"]}

\* the worker-pool server is not the deployed one
PoolOff ==
  /\ pool_manager = [active_connections |-> <<>>]
  /\ handler = [c \in PoolConns |-> HandlerOff]
  /\ executor = [queue |-> <<>>, jobs |-> <<>>]
  /\ inference_lock = NoJob
  /\ pool_sent = [c \in PoolConns |-> <<>>]

InitWith(fs) ==
  /\ PoolOff
  /\ TrainerIdle
  /\ files = fs
  /\ asl_model = ASLModelInit(fs)
  /\ training_collector = CollectorInit
  /\ isolated_level_manager = LevelManagerInit
  /\ manager = [active_connections |-> <<>>, training_connections |-> <<>>]
  /\ ws_pc = [c \in Conns |-> "closed"]
  /\ ws_response = [c \in Conns |-> NoResponse]
  /\ last = Outcome("none", "none", 0)
  /\ before_practice = Before(Outcome("none", "none", 0))

\* a fresh installation, with or without a trained default model
Init ==
  \E m \in {NoDir, FullDir("good")} :
     InitWith([d \in ArtifactDirs |->
                 IF d = "models" THEN m ELSE IF d = "root" THEN EmptyDir ELSE NoDir])

\* a restart over lesson artifacts left by earlier runs
InitLesson ==
  \E m \in {NoDir, FullDir("good")}, a, b \in ArtifactShapes :
     InitWith([d \in ArtifactDirs |->
                 IF d = "models" THEN m
                 ELSE IF d = "lesson_1" THEN a
                 ELSE IF d = "lesson_2" THEN b
                 ELSE IF d = "root" THEN EmptyDir ELSE NoDir])

\* a request the handler answers before it uses its other fields: a missing
\* session id (400), or a session id without the admin prefix on an admin
\* endpoint (403); the other fields make no difference and are fixed
RejectedTrainingRequest ==
  \/ AddTrainingSample(None, "Hello", "hand")
  \/ CompleteTraining(None, "none", 0, 0)
  \/ \E sid \in {None} \cup (SessionIds \ AdminSessionIds) :
        \/ AddAdminTrainingSample(sid, "lesson_1", "Hello", "hand")
        \/ CompleteAdminLevelTraining(sid, "lesson_1", "none", 0, 0)

NextTrain ==
  \/ \E sid \in SessionIds, g \in GestureInputs, f \in FrameKinds :
        AddTrainingSample(sid, g, f)
  \/ \E sid \in AdminSessionIds, l \in TrainLessonIds, g \in GestureInputs, f \in FrameKinds :
        AddAdminTrainingSample(sid, l, g, f)
  \/ \E sid \in SessionIds, o \in TrainingOutcomes :
        CompleteTraining(sid, o.fail, o.rf_accuracy, o.tf_accuracy)
  \/ \E sid \in AdminSessionIds, l \in TrainLessonIds, o \in TrainingOutcomes :
        CompleteAdminLevelTraining(sid, l, o.fail, o.rf_accuracy, o.tf_accuracy)
  \/ RejectedTrainingRequest

NextLesson ==
  \/ \E l \in LessonIds \cup {None} : StartPracticeMode(l)
  \/ StopPracticeMode
  \/ GetPracticeStatus
  \/ \E c \in Conns : WsConnect(c)
  \/ \E c \in Conns, m \in MsgKinds : WsReceive(c, m)
  \/ \E c \in Conns : WsSend(c)
  \/ \E c \in Conns : WsDisconnect(c)

\* either server freshly started: the session and training server with its
\* websocket endpoint, or the worker-pool server
InitPool ==
  \/ Init
  \/ /\ files = [d \in ArtifactDirs |-> NoDir]
     /\ asl_model = [model |-> NoModel, model_loaded |-> FALSE]
     /\ training_collector = CollectorInit
     /\ isolated_level_manager = LevelManagerInit
     /\ manager = [active_connections |-> <<>>, training_connections |-> <<>>]
     /\ ws_pc = [c \in Conns |-> "off"]
     /\ ws_response = [c \in Conns |-> NoResponse]
     /\ last = Outcome("none", "none", 0)
     /\ before_practice = Before(Outcome("none", "none", 0))
     /\ TrainerIdle
     /\ pool_manager = [active_connections |-> <<>>]
     /\ handler = [c \in PoolConns |-> [HandlerOff EXCEPT !.pc = "new"]]
     /\ executor = [queue |-> <<>>, jobs |-> <<>>]
     /\ inference_lock = NoJob
     /\ pool_sent = [c \in PoolConns |-> <<>>]

\* the websocket endpoints of both servers
NextPool ==
  \/ \E c \in Conns : WsConnect(c)
  \/ \E c \in Conns, m \in MsgKinds : WsReceive(c, m)
  \/ \E c \in Conns : WsSend(c)
  \/ \E c \in Conns : WsDisconnect(c)
  \/ \E c \in PoolConns : PoolConnect(c)
  \/ \E c \in PoolConns, m \in PoolMsgKinds : PoolReceive(c, m)
  \/ WorkerStart
  \/ \E j \in JobIds, i \in ImageKinds : WorkerFrame(j, i)
  \/ \E j \in JobIds : WorkerExtract(j)
  \/ \E j \in JobIds : WorkerAcquire(j)
  \/ \E j \in JobIds : WorkerPredict(j)
  \/ \E c \in PoolConns : PoolResult(c)
  \/ \E c \in PoolConns : PoolTimeout(c)
  \/ \E c \in PoolConns : PoolSend(c)
  \/ \E c \in PoolConns : PoolDisconnect(c)

\* the offline trainer started in a working directory left by earlier runs
\* of the script and of the server; the servers are not running
InitOffline ==
  /\ PoolOff
  /\ files = [d \in ArtifactDirs |-> NoDir]
  /\ asl_model = [model |-> NoModel, model_loaded |-> FALSE]
  /\ training_collector = CollectorInit
  /\ isolated_level_manager = LevelManagerInit
  /\ manager = [active_connections |-> <<>>, training_connections |-> <<>>]
  /\ ws_pc = [c \in Conns |-> "off"]
  /\ ws_response = [c \in Conns |-> NoResponse]
  /\ last = Outcome("none", "none", 0)
  /\ before_practice = Before(Outcome("none", "none", 0))
  /\ \E d \in BOOLEAN, m \in SUBSET ModelsEntries, r \in SUBSET RootEntries :
        /\ ~d => m = {}
        /\ "train_model_android.py" \in r
        /\ offline = [models_dir |-> d, models |-> m, root |-> r,
                      rmtree_models |-> FALSE, data |-> "not_run"]

\* runs of the offline trainer
NextOffline == \E data \in DataKinds : TrainWithAndroidData(data)

Next == NextTrain \/ NextLesson \/ NextPool \/ NextOffline

Spec == Init /\ [][Next]_vars

\* the training workflow alone
SpecTrain == Init /\ [][NextTrain]_vars

\* the lesson mode manager and the dispatch engine alone
SpecLesson == InitLesson /\ [][NextLesson]_vars

\* the websocket endpoints of the two servers alone
SpecPool == InitPool /\ [][NextPool]_vars

\* collection and training of Hello samples, regular and for lesson_1, next
\* to entering and leaving lessons
NextRetrain ==
  \/ \E l \in {"lesson_1", "lesson_2"} : StartPracticeMode(l)
  \/ StopPracticeMode
  \/ \E f \in FrameKinds : AddTrainingSample("s1", "Hello", f)
  \/ \E f \in FrameKinds : AddAdminTrainingSample("admin_level_a", "lesson_1", "Hello", f)
  \/ \E fail \in FailPoints : CompleteTraining("s1", fail, 10, 10)
  \/ \E fail \in FailPoints : CompleteAdminLevelTraining("admin_level_a", "lesson_1", fail, 10, 10)

\* training while lessons are entered and left
SpecRetrain == Init /\ [][NextRetrain]_vars

\* the offline trainer alone
SpecOffline == InitOffline /\ [][NextOffline]_vars

----------------------------------------------------------------------------
(* Steps, by the handler that took them *)

\* a /training/complete request that reached run_training
RegularTrainingStep ==
  \E sid \in SessionIds, o \in TrainingOutcomes :
     CompleteTraining(sid, o.fail, o.rf_accuracy, o.tf_accuracy)

\* a /admin/training/complete-level request for lesson l that reached run_training
AdminTrainingStep(l) ==
  \E sid \in SessionIds, o \in TrainingOutcomes :
     /\ StartsWithAdminLevel(sid)
     /\ CompleteAdminLevelTraining(sid, l, o.fail, o.rf_accuracy, o.tf_accuracy)

\* a /practice/start request that reached enter_practice_mode
EnterStep(l) == StartPracticeMode(l) /\ l # None /\ files[l].exists

\* a request that replaces the current training session by another one
SessionReplaceStep ==
  /\ training_collector.current_session # None
  /\ training_collector'.current_session # training_collector.current_session

\* every sample of the training set xy carries the index its gesture has in v
IndexedBy(xy, v) ==
  \A k \in 1..Len(xy) :
     /\ 0 <= xy[k].label /\ xy[k].label < Len(v)
     /\ v[xy[k].label + 1] = xy[k].feature.gesture

\* the lesson context is the one exit_practice_mode leaves
NoLessonContext(lm) ==
  /\ ~lm.is_practice_mode
  /\ lm.current_level_id = None
  /\ lm.current_level_labels = <<>>
  /\ lm.current_level_model = NoModel
  /\ lm.current_level_rf_model = NoModel
  /\ lm.current_level_metadata = NoMetadata

\* every part of the lesson context was loaded for lesson l
ContextOf(lm, l) ==
  /\ lm.current_level_id = l
  /\ lm.current_level_labels = PRACTICE_LEVEL_GESTURES(l)
  /\ lm.current_level_model \in {NoModel, TFModel(l)}
  /\ lm.current_level_rf_model \in {NoModel, RFModel(l)}
  /\ lm.current_level_metadata \in {NoMetadata, MetadataOf(l)}

----------------------------------------------------------------------------
(* C1..C10 *)

\* C1: a /training/complete request whose run_training fails leaves the
\* in-memory default classifier (asl_model.model, asl_model.model_loaded) as
\* it was before the request.
C1_TrainingFailureIsolation ==
  [][(RegularTrainingStep /\ ~last'.ok) => asl_model' = asl_model]_vars

\* C2: the training set every run_training call assembles is indexed by the
\* vocabulary that call trains with: each label i is in range and
\* vocabulary[i] is the gesture the sample was submitted under.
C2_VocabularyIndexConsistency ==
  [][/\ RegularTrainingStep =>
          IndexedBy(Assemble(training_collector, ORIGINAL_LABELS, 1), ORIGINAL_LABELS)
     /\ \A l \in TrainLessonIds :
          AdminTrainingStep(l) =>
            IndexedBy(Assemble(training_collector, LESSON_GESTURES(l), 1), LESSON_GESTURES(l))
    ]_vars

\* C3: entering and leaving practice mode never change the default
\* classifier, and leaving ends in the default mode; so enter(L) followed by
\* exit is back in Default with the classifier it had before.
C3_ModeRoundTrip ==
  [][/\ \A l \in LessonIds : EnterStep(l) => asl_model' = asl_model
     /\ StopPracticeMode =>
          /\ asl_model' = asl_model
          /\ ~isolated_level_manager'.is_practice_mode
          /\ DefaultServes(asl_model') = DefaultServes(asl_model)
    ]_vars

\* C3 witness: a frame was served by the lesson classifier, then the lesson
\* was left after a successful entry, and the default classifier is loaded.
C3_Witness ==
  /\ last.op = "stop_practice_mode"
  /\ before_practice.op = "start_practice_mode" /\ before_practice.ok
  /\ ~isolated_level_manager.is_practice_mode
  /\ asl_model.model_loaded

\* C4: after a successful enterLesson(L) the lesson id, vocabulary, metadata
\* and classifiers of the manager all belong to L.
C4_EnterReplacesWholesale ==
  (last.op = "start_practice_mode" /\ last.ok)
     => ContextOf(isolated_level_manager, last.lesson_id)

\* C5: a failed enterLesson leaves the manager as it was.
C5_FailedEnterUnchanged ==
  [][\A l \in LessonIds :
        (EnterStep(l) /\ ~last'.ok) => isolated_level_manager' = isolated_level_manager
    ]_vars

\* C6: enterLesson(L) fails whenever L's artifact directory holds neither
\* model file.
C6_ModelLessArtifactRejected ==
  (/\ last.op = "start_practice_mode"
   /\ last.lesson_id # None
   /\ files[last.lesson_id].pkl = "absent"
   /\ files[last.lesson_id].tf = "absent")
     => ~last.ok

\* C7: the flag is set exactly when a lesson id is held, and without the
\* flag the whole lesson context is cleared.
C7_FlagIffContext ==
  /\ isolated_level_manager.is_practice_mode
       <=> isolated_level_manager.current_level_id # None
  /\ ~isolated_level_manager.is_practice_mode => NoLessonContext(isolated_level_manager)

C9_DispatchSingleRead ==
  [][\A c \in Conns :
        (ws_pc[c] = "recv" /\ ws_pc'[c] = "send" /\ ws_response'[c].hand_detected) =>
           LET r == ws_response'[c]
               lm == isolated_level_manager
           IN /\ r.route = IF lm.is_practice_mode THEN "level" ELSE "default"
              /\ r.served = IF lm.is_practice_mode THEN LevelServes(lm)
                            ELSE DefaultServes(asl_model)
              /\ r.practice_mode = lm.is_practice_mode
              /\ r.practice_level = lm.current_level_id
              /\ (r.route = "level") <=> r.practice_mode
              /\ isolated_level_manager' = lm
    ]_vars

\* C9 witness: a frame served in lesson mode is still waiting to be sent
\* when a /practice/stop has already taken effect.
C9_Witness ==
  \E c \in Conns :
     /\ ws_pc[c] = "send"
     /\ ws_response[c].route = "level"
     /\ ws_response[c].practice_mode
     /\ last.op = "stop_practice_mode"
     /\ ~isolated_level_manager.is_practice_mode

\* C10: a request that replaces session A by session B leaves one bucket per
\* gesture of B's vocabulary, no sample of A, and no sample but the one this
\* request itself stored: start_training_session gives B one empty bucket
\* per gesture, and the replace and the store are one step.
C10_SessionReplaceAtomic ==
  [][SessionReplaceStep =>
       LET tc == training_collector'
           total == Len(Assemble(tc, tc.current_lesson_gestures, 1))
       IN /\ DOMAIN tc.training_features = Elems(tc.current_lesson_gestures)
          /\ DOMAIN tc.training_labels = Elems(tc.current_lesson_gestures)
          /\ tc.current_lesson_gestures =
               IF tc.current_lesson_id = None THEN ORIGINAL_LABELS
               ELSE LESSON_GESTURES(tc.current_lesson_id)
          /\ \A g \in DOMAIN tc.training_features :
                /\ Len(tc.training_features[g]) = Len(tc.training_labels[g])
                /\ \A k \in 1..Len(tc.training_features[g]) :
                      tc.training_features[g][k].sess = tc.current_session
          /\ total = last'.samples
          /\ total <= 1
          /\ \A sid \in SessionIds, adm \in BOOLEAN, l \in TrainLessonIds :
                LET b == start_training_session(training_collector, sid, adm, l)
                IN /\ DOMAIN b.training_features = Elems(b.current_lesson_gestures)
                   /\ \A g \in DOMAIN b.training_features :
                         Len(b.training_features[g]) = 0 /\ Len(b.training_labels[g]) = 0
    ]_vars

\* C10 witness: a session that held samples was replaced, and the new
\* session holds the first sample of the replacing request.
C10_Witness ==
  /\ last.replaced_samples
  /\ last.samples = 1
  /\ training_collector.current_session = "s1"
  /\ "admin_level_a" \in DOMAIN training_collector.admin_level_sessions

----------------------------------------------------------------------------
(* C11..C20 *)

\* C11: in every reachable state of a current session, process_training_frame
\* called with a gesture name that (surrounding whitespace stripped, as the
\* code compares it) is not in the session's vocabulary returns 0 and leaves
\* the collector, every feature and index list included, as it was; this
\* holds for regular and admin sessions and for every kind of frame.
C11_SampleRejection ==
  \A g \in GestureInputs, f \in FrameKinds :
     (/\ training_collector.current_session # None
      /\ strip(g) \notin Elems(training_collector.current_lesson_gestures))
     => process_training_frame(training_collector, g, f) = <<training_collector, 0>>

\* C11 witness: a regular session with samples in both buckets in use was
\* answered 500 by process_training_frame returning 0; with these buckets
\* non-empty only a name outside the vocabulary returns 0.
C11_Witness ==
  /\ last.op = "add_training_sample"
  /\ last.code = 500
  /\ training_collector.current_lesson_gestures = ORIGINAL_LABELS
  /\ Len(training_collector.training_features["Hello"]) > 0
  /\ Len(training_collector.training_features["Thank You"]) > 0

\* C12: in every reachable state of a current session, process_training_frame
\* called with a gesture of the session's vocabulary and a frame with a
\* detection appends one feature vector and the gesture's vocabulary index to
\* that gesture's two lists and returns the new length k; nothing else of the
\* collector changes; and in every reachable state the two lists of a gesture
\* have equal length and every stored index is the gesture's vocabulary index.
C12_DetectedFrameAppends ==
  LET tc == training_collector
  IN /\ DOMAIN tc.training_features = DOMAIN tc.training_labels
     /\ \A g \in DOMAIN tc.training_features :
           /\ Len(tc.training_features[g]) = Len(tc.training_labels[g])
           /\ \A k \in 1..Len(tc.training_labels[g]) :
                 tc.training_labels[g][k] = IndexOf(tc.current_lesson_gestures, g)
     /\ \A g \in GestureInputs :
           (tc.current_session # None /\ strip(g) \in Elems(tc.current_lesson_gestures))
           => LET r == process_training_frame(tc, g, "hand")
                  sg == strip(g)
              IN /\ r[2] = Len(GetList(tc.training_features, sg)) + 1
                 /\ r[1] = [tc EXCEPT
                              !.training_features =
                                 Put(@, sg, Append(GetList(@, sg), Feature(tc.current_session, sg))),
                              !.training_labels =
                                 Put(@, sg, Append(GetList(@, sg),
                                                   IndexOf(tc.current_lesson_gestures, sg)))]

\* the gestures of vocabulary v that have a buffered sample
Populated(tc, v) == {g \in Elems(v) : Len(GetList(tc.training_features, g)) > 0}

\* C13: in every reachable state of a regular session in which exactly one
\* gesture of ORIGINAL_LABELS has samples, run_training() returns ok = False,
\* wherever the libraries raise or do not raise.
C13_SingleGestureTrainingFails ==
  (/\ training_collector.current_session # None
   /\ training_collector.current_lesson_id = None
   /\ Cardinality(Populated(training_collector, ORIGINAL_LABELS)) = 1)
  => \A o \in TrainingOutcomes :
        ~run_training(training_collector, files, FALSE, None,
                      o.fail, o.rf_accuracy, o.tf_accuracy).ok

\* C14: a /admin/training/complete-level request, whatever its outcome,
\* leaves the in-memory default classifier and every artifact directory
\* other than level_models/<lesson_id> as they were; the default artifact
\* models/ is among those.
C14_LessonIsolation ==
  [][last'.op = "complete_admin_level_training" =>
       /\ asl_model' = asl_model
       /\ files'["models"] = files["models"]
       /\ \A d \in ArtifactDirs \ {last'.lesson_id} : files'[d] = files[d]
    ]_vars

\* C14 witness: a lesson run for lesson_1 succeeded and wrote its artifact
\* while the default artifact is on disk and loaded.
C14_Witness ==
  /\ last.op = "complete_admin_level_training"
  /\ last.ok
  /\ last.lesson_id = "lesson_1"
  /\ files["lesson_1"] = FullDir("good")
  /\ files["models"] = FullDir("good")
  /\ asl_model.model_loaded

\* C15: a training request whose run_training fails leaves every artifact
\* directory either exactly as it was or without any artifact file: no model
\* file of the failed run without the rest of its artifact, no metadata left
\* next to deleted model files.
C15_NoPartialArtifact ==
  [][(/\ last'.op \in {"complete_training", "complete_admin_level_training"}
      /\ last'.code = 500)
     => \A d \in ArtifactDirs :
           \/ files'[d] = files[d]
           \/ /\ files'[d].pkl = "absent"
              /\ files'[d].tf = "absent"
              /\ files'[d].meta = "absent"
    ]_vars

\* C16: in every reachable state, for a regular run and for an admin run of
\* any lesson id, when no gesture of the run's vocabulary has a buffered
\* sample run_training returns (False, 0.0) and leaves the file system and
\* the collector exactly as they were.
C16_EmptyDatasetFailsFast ==
  \A adm \in BOOLEAN, l \in TrainLessonIds, o \in TrainingOutcomes :
     Populated(training_collector, TargetGestures(adm, l)) = {}
     => run_training(training_collector, files, adm, l, o.fail, o.rf_accuracy, o.tf_accuracy)
          = [tc |-> training_collector, fs |-> files, ok |-> FALSE, accuracy |-> 0]

\* C16 witness: an admin run for lesson_9, whose vocabulary is empty, failed
\* while the buffers hold samples, and level_models/lesson_9 was not created.
C16_Witness ==
  /\ last.op = "complete_admin_level_training"
  /\ last.lesson_id = "lesson_9"
  /\ last.code = 500
  /\ HasSamples(training_collector)
  /\ ~files["lesson_9"].exists

\* C17: a /training/complete request that succeeds ends with the neural model
\* file of models/ written, the default classifier loaded from it and
\* serving default-mode predictions, and the sample buffers cleared.
C17_ReloadAfterTraining ==
  [][(last'.op = "complete_training" /\ last'.ok) =>
       /\ files'["models"] = FullDir("good")
       /\ asl_model' = [model |-> TFModel("original"), model_loaded |-> TRUE]
       /\ DefaultServes(asl_model') = TFModel("original")
       /\ training_collector'.training_features = EmptyDict
       /\ training_collector'.training_labels = EmptyDict
    ]_vars

\* C17 witness: a regular training succeeded; the classifier is loaded and
\* no sample is buffered.
C17_Witness ==
  /\ last.op = "complete_training"
  /\ last.ok
  /\ asl_model.model_loaded
  /\ ~HasSamples(training_collector)

\* the default dispatcher holds a loaded neural classifier
NeuralLoaded(am) == am.model_loaded /\ am.model # NoModel

\* what a classifier bound to vocabulary v answers for inference infer
ModelAnswer(v, infer) ==
  <<IF infer.class < Len(v) THEN v[infer.class + 1] ELSE "Unknown", infer.confidence>>

\* C18: in every reachable state, for every feature vector, predict answers
\* with the neural classifier when one is loaded; when none is loaded and
\* models/asl_model.pkl exists it answers with a trained (ensemble)
\* classifier's class and confidence; only when neither is available does it
\* answer with the rule-based heuristic.
C18_PreferenceOrder ==
  \A infer \in Inferences, fingers_up \in FingerPatterns :
     ~infer.raises =>
       LET r == predict(asl_model, infer, fingers_up)
       IN /\ NeuralLoaded(asl_model) => r = ModelAnswer(ORIGINAL_LABELS, infer)
          /\ (~NeuralLoaded(asl_model) /\ files["models"].pkl = "good")
               => r = ModelAnswer(ORIGINAL_LABELS, infer)
          /\ (~NeuralLoaded(asl_model) /\ files["models"].pkl # "good")
               => r = rule_based_prediction(fingers_up)

\* C19: in every reachable state and for every feature vector, predict
\* returns a pair whose gesture is in ORIGINAL_LABELS or is "Unknown"; when no
\* model is loaded or the inference raises the pair is the rule-based
\* heuristic's; a class index outside ORIGINAL_LABELS gives "Unknown".
C19_NeverHardFails ==
  \A infer \in Inferences, fingers_up \in FingerPatterns :
     LET r == predict(asl_model, infer, fingers_up)
     IN /\ r[1] \in Elems(ORIGINAL_LABELS) \cup {"Unknown"}
        /\ (~NeuralLoaded(asl_model) \/ infer.raises) => r = rule_based_prediction(fingers_up)
        /\ (NeuralLoaded(asl_model) /\ ~infer.raises /\ infer.class >= Len(ORIGINAL_LABELS))
             => r[1] = "Unknown"

\* C19 witness: with no default classifier loaded, a frame with a detection
\* was answered in default mode by the rule-based heuristic.
C19_Witness ==
  /\ ~NeuralLoaded(asl_model)
  /\ \E c \in Conns :
        /\ ws_response[c].hand_detected
        /\ ws_response[c].route = "default"
        /\ ws_response[c].served.kind = "rule_based"

\* C20: in every reachable state with a lesson active, predict_with_level_model
\* answers ("No model", 0.0) for every class index that is out of range for
\* the lesson vocabulary, whether the neural or the ensemble classifier
\* produced it, and for every inference it returns a pair: a gesture of the
\* label list in use, or one of the sentinels "No model" and "Error" with
\* confidence 0.
C20_LessonIndexOutOfRange ==
  LET lm == isolated_level_manager
  IN lm.is_practice_mode =>
       \A infer \in Inferences :
          LET r == predict_with_level_model(lm, infer)
          IN /\ (~infer.raises /\ infer.class >= Len(lm.current_level_labels))
                  => r = <<"No model", 0>>
             /\ \/ r[1] \in Elems(gesture_labels(lm))
                \/ r \in {<<"No model", 0>>, <<"Error", 0>>}

\* C20 witness: a lesson with a neural classifier is active and has served a
\* frame, and some class index the classifier may answer is outside the
\* lesson vocabulary.
C20_Witness ==
  /\ isolated_level_manager.is_practice_mode
  /\ isolated_level_manager.current_level_model # NoModel
  /\ MaxClassIndex >= Len(isolated_level_manager.current_level_labels)
  /\ \E c \in Conns : ws_response[c].route = "level" /\ ws_response[c].served.kind = "tf"

----------------------------------------------------------------------------
(* C21..C30 *)

\* C21: in every reachable state with a lesson active and a classifier
\* loaded, the classifier predict_with_level_model runs belongs to the active
\* lesson, it is the neural one whenever a neural one is loaded, and every
\* in-range class index is answered with the gesture at that index of the
\* active lesson's own vocabulary.
C21_LessonVocabularyResolution ==
  LET lm == isolated_level_manager
      v == PRACTICE_LEVEL_GESTURES(lm.current_level_id)
  IN (lm.is_practice_mode /\ LevelServes(lm).kind \in {"tf", "rf"}) =>
       /\ LevelServes(lm).owner = lm.current_level_id
       /\ lm.current_level_model # NoModel => LevelServes(lm).kind = "tf"
       /\ \A infer \in Inferences :
             (~infer.raises /\ infer.class < Len(v))
               => predict_with_level_model(lm, infer) = <<v[infer.class + 1], infer.confidence>>

\* C22: a step of /training/complete or /admin/training/complete-level whose
\* session id differs from the current training session's id leaves the
\* collector (the current session and its buffers) and the artifacts
\* unchanged: it neither trains from the buffers nor clears them.
C22_MutationDiscipline ==
  [][(last'.op \in {"complete_training", "complete_admin_level_training"}) =>
       \A sid \in SessionIds, o \in TrainingOutcomes :
          (/\ training_collector.current_session \notin {None, sid}
           /\ \/ CompleteTraining(sid, o.fail, o.rf_accuracy, o.tf_accuracy)
              \/ \E l \in TrainLessonIds :
                    CompleteAdminLevelTraining(sid, l, o.fail, o.rf_accuracy, o.tf_accuracy))
            => (training_collector' = training_collector /\ files' = files)]_vars

\* C23: a step of /training/add-sample whose session id differs from the
\* current session's id leaves a session with that id, no lesson and the
\* default vocabulary, whose buckets are those of the default vocabulary and
\* hold nothing but the sample of this request (when its gesture is valid and
\* its frame has a detection); and after every step a session with a lesson
\* vocabulary is registered as an admin session of that lesson.
C23_SessionSwitchPolicy ==
  [][/\ (last'.op = "add_training_sample" /\ last'.code # 400) =>
          \A sid \in SessionIds, g \in GestureInputs, f \in FrameKinds :
             (/\ training_collector.current_session \notin {None, sid}
              /\ AddTrainingSample(sid, g, f))
               => LET tc == training_collector'
                      stored(b) == b = strip(g) /\ f = "hand"
                  IN /\ tc.current_session = sid
                     /\ tc.current_lesson_id = None
                     /\ tc.current_lesson_gestures = ORIGINAL_LABELS
                     /\ DOMAIN tc.training_features = Elems(ORIGINAL_LABELS)
                     /\ DOMAIN tc.training_labels = Elems(ORIGINAL_LABELS)
                     /\ \A b \in Elems(ORIGINAL_LABELS) :
                          /\ tc.training_features[b] =
                               IF stored(b) THEN <<Feature(sid, b)>> ELSE <<>>
                          /\ tc.training_labels[b] =
                               IF stored(b) THEN <<IndexOf(ORIGINAL_LABELS, b)>> ELSE <<>>
     /\ LET tc == training_collector'
        IN tc.current_lesson_id # None =>
             /\ tc.current_session \in DOMAIN tc.admin_level_sessions
             /\ tc.admin_level_sessions[tc.current_session].lesson_id = tc.current_lesson_id
             /\ tc.current_lesson_gestures = LESSON_GESTURES(tc.current_lesson_id)]_vars

\* C23 witness: a regular submit has replaced an admin lesson session that
\* held samples and stored its own sample in the new session.
C23_Witness ==
  /\ last.op = "add_training_sample"
  /\ last.replaced_samples
  /\ last.samples = 1
  /\ training_collector.admin_level_sessions # EmptyDict
  /\ training_collector.current_session \notin DOMAIN training_collector.admin_level_sessions
  /\ training_collector.current_lesson_id = None

\* C30: in every reachable state with a current session, for every gesture
\* of the session's vocabulary and every frame without a detection (no hand,
\* or an image that cannot be decoded), process_training_frame leaves the
\* collector as it is and returns the length of that gesture's bucket.
C30_DetectionMissUnchanged ==
  LET tc == training_collector
      valid_gestures == IF tc.current_lesson_gestures # <<>>
                        THEN tc.current_lesson_gestures ELSE ORIGINAL_LABELS
  IN tc.current_session # None =>
       \A g \in GestureInputs, f \in FrameKinds \ {"hand"} :
          strip(g) \in Elems(valid_gestures)
            => process_training_frame(tc, g, f)
                 = <<tc, Len(GetList(tc.training_features, strip(g)))>>

\* C30 witness: a submit in a running session was answered with the count of
\* a bucket that holds at least two samples, the count a frame without a
\* detection is answered with.
C30_Witness ==
  /\ last.op = "add_training_sample"
  /\ last.code = 200
  /\ ~last.replaced_samples
  /\ training_collector.current_session # None
  /\ \E g \in DOMAIN training_collector.training_features :
        /\ Len(training_collector.training_features[g]) = last.samples
        /\ last.samples >= 2
        /\ process_training_frame(training_collector, g, "nohand")[2] = last.samples

\* the last element of a sequence
Last(q) == q[Len(q)]

\* C24: on every websocket of the worker-pool server the handler reads a
\* message only while it is at receive_text, and when the message before was
\* a frame its response (result or error) is the last thing sent; every
\* response sent is the one of the message read last, so the responses of a
\* websocket carry increasing message numbers.  On every websocket of the
\* session server a response is built only by a handler at receive_text, and
\* a handler holding a response does nothing but send it or terminate.
C24_ReceiptOrder ==
  [][/\ \A c \in PoolConns :
          /\ handler'[c].frame = handler[c].frame + 1
               => /\ handler[c].pc = "recv"
                  /\ handler[c].is_frame
                       => /\ pool_sent[c] # <<>>
                          /\ Last(pool_sent[c]).frame = handler[c].frame
          /\ pool_sent'[c] # pool_sent[c] /\ pool_sent'[c] # <<>>
               => /\ pool_sent'[c] = Append(pool_sent[c], handler[c].outbox)
                  /\ handler[c].outbox.frame = handler[c].frame
                  /\ handler[c].outbox.kind # "none"
          /\ \A i, k \in 1..Len(pool_sent'[c]) :
               i < k => pool_sent'[c][i].frame < pool_sent'[c][k].frame
     /\ \A c \in Conns :
          /\ ws_response'[c] # ws_response[c] => ws_pc[c] \in {"closed", "recv"}
          /\ ws_pc[c] = "send" => ws_pc'[c] \in {"send", "recv", "closed"}
          /\ (ws_pc[c] = "send" /\ ws_pc'[c] = "recv") => ws_response'[c] = ws_response[c]]_vars

\* C24 witness: a websocket of the worker-pool server was sent the timeout
\* error of its first frame and then the result of its second frame.
C24_Witness ==
  \E c \in PoolConns :
     /\ handler[c].pc = "recv"
     /\ Len(pool_sent[c]) = 2
     /\ pool_sent[c][1] = [frame |-> 1, kind |-> "timeout"]
     /\ pool_sent[c][2] = [frame |-> 2, kind |-> "result"]

\* websocket c is in the worker-pool server's registry after the step
RegisteredNext(c) == c \in Elems(pool_manager'.active_connections)

\* C25: when the handler of a websocket waits for a job that has not
\* finished and the wait ends (the 2.0 s timeout), the handler goes to send an
\* error for that frame with the websocket still registered, and nothing of
\* any other websocket changes; when that error has been sent the handler is
\* back at receive_text with the websocket still registered.
C25_TimeoutFailsFrameOnly ==
  [][\A c \in PoolConns :
       /\ (/\ handler[c].pc = "wait"
           /\ executor.jobs[<<c, handler[c].frame>>] \notin Finished
           /\ handler'[c] # handler[c])
            => /\ handler'[c] = [handler[c] EXCEPT
                                   !.pc = "send",
                                   !.outbox = [frame |-> handler[c].frame, kind |-> "timeout"]]
               /\ RegisteredNext(c)
               /\ \A d \in PoolConns \ {c} :
                    handler'[d] = handler[d] /\ pool_sent'[d] = pool_sent[d]
       /\ (/\ handler[c].pc = "send"
           /\ handler[c].outbox.kind = "timeout"
           /\ pool_sent'[c] # pool_sent[c]
           /\ handler'[c].pc # "closed")
            => /\ handler'[c].pc = "recv"
               /\ Last(pool_sent'[c]) = handler[c].outbox
               /\ RegisteredNext(c)]_vars

\* C25 witness: after the timeout error of its first frame was sent, the
\* handler has the result of the second frame to send and the websocket is
\* registered.
C25_Witness ==
  \E c \in PoolConns :
     /\ pool_sent[c] = <<[frame |-> 1, kind |-> "timeout"]>>
     /\ handler[c].pc = "send"
     /\ handler[c].outbox = [frame |-> 2, kind |-> "result"]
     /\ c \in Elems(pool_manager.active_connections)

\* C26: in both servers, every step in which the websocket handler takes a
\* message that is not valid JSON, has no frame field or (session server,
\* where the handler decodes the image itself) carries an undecodable image
\* ends with an error response to send and the websocket still registered.
C26_InputErrorsAnswered ==
  [][/\ \A c \in Conns, m \in {"bad_json", "no_frame", "bad_image"} :
          WsReceive(c, m)
            => /\ ws_pc'[c] = "send"
               /\ ws_response'[c].error # ""
               /\ c \in Elems(manager'.active_connections)
     /\ \A c \in PoolConns, m \in {"bad_json", "no_frame"} :
          PoolReceive(c, m)
            => /\ handler'[c].pc = "send"
               /\ handler'[c].outbox.kind = "invalid_json"
               /\ RegisteredNext(c)]_vars

\* websockets whose handler is running in the session server
Running == {c \in Conns : ws_pc[c] \in {"recv", "send"}}

\* websockets whose handler is running in the worker-pool server
PoolRunning == {c \in PoolConns : handler[c].pc \in {"recv", "wait", "send"}}

\* C27: in every reachable state the registry of each server holds exactly
\* the websockets whose handler is running, each once; a websocket whose
\* handler has terminated is not in it.
C27_RegistryIsRunningHandlers ==
  /\ Elems(manager.active_connections) = Running
  /\ Len(manager.active_connections) = Cardinality(Running)
  /\ Elems(pool_manager.active_connections) = PoolRunning
  /\ Len(pool_manager.active_connections) = Cardinality(PoolRunning)

\* C27 witness: one handler of the worker-pool server has terminated after
\* it had submitted a frame, while another one waits for its job.
C27_Witness ==
  \E c, d \in PoolConns :
     /\ handler[c].pc = "closed"
     /\ \E j \in DOMAIN executor.jobs : j[1] = c
     /\ handler[d].pc = "wait"
     /\ pool_manager.active_connections = <<d>>

\* C28: in every reachable state at most one job is inside predict_fast, and
\* it is the job that holds inference_lock.
C28_InferenceSerialized ==
  LET inside == {j \in DOMAIN executor.jobs : executor.jobs[j] = "predict"}
  IN /\ Cardinality(inside) <= 1
     /\ \A j \in inside : inference_lock = j
     /\ inference_lock # NoJob => inference_lock \in inside

\* C28 witness: a job of one websocket is inside predict_fast while a job of
\* another websocket is blocked at the lock.
C28_Witness ==
  \E j, k \in DOMAIN executor.jobs :
     /\ j[1] # k[1]
     /\ executor.jobs[j] = "predict"
     /\ executor.jobs[k] = "lock_wait"
     /\ inference_lock = j

\* C29: in every reachable state at most one job of a websocket is queued or
\* executing in the pool.
C29_OneJobPerConnection ==
  \A c \in PoolConns :
     Cardinality({j \in Outstanding(executor) : j[1] = c}) <= 1

----------------------------------------------------------------------------
(* C31..C40 *)

\* C31: every step of a submit endpoint whose frame has no detection (no
\* hand, or an image that cannot be decoded), for a gesture of the session's
\* vocabulary, is answered with status success, also when the gesture's
\* bucket is empty.
C31_MissAnsweredSuccess ==
  [][(last'.op \in {"add_training_sample", "add_admin_training_sample"}) =>
       \A sid \in SessionIds, g \in {"Hello", "Thank You"}, f \in FrameKinds \ {"hand"} :
          (/\ training_collector.current_session = sid
           /\ g \in DOMAIN training_collector.training_features
           /\ \/ AddTrainingSample(sid, g, f)
              \/ \E l \in TrainLessonIds : AddAdminTrainingSample(sid, l, g, f))
            => last'.status = "success"]_vars

\* C32: an admin session start for a lesson id that is not a known lesson
\* succeeds in every reachable state and leaves an empty vocabulary and no
\* buckets; and in every reachable state whose current session has such a
\* lesson id the vocabulary is empty, there are no buckets, and
\* process_training_frame returns 0 and leaves the collector as it is for
\* every gesture name (default-vocabulary names included) and every frame.
C32_UnknownLessonCollectsNothing ==
  LET tc == training_collector
  IN /\ \A sid \in AdminSessionIds, l \in TrainLessonIds \ KnownLessons :
          LET s == start_training_session(tc, sid, TRUE, l)
          IN /\ s.current_session = sid
             /\ s.current_lesson_id = l
             /\ s.current_lesson_gestures = <<>>
             /\ s.training_features = EmptyDict
             /\ s.training_labels = EmptyDict
     /\ (tc.current_session # None /\ tc.current_lesson_id \notin KnownLessons \cup {None})
          => /\ tc.current_lesson_gestures = <<>>
             /\ tc.training_features = EmptyDict
             /\ tc.training_labels = EmptyDict
             /\ \A g \in GestureInputs, f \in FrameKinds :
                   process_training_frame(tc, g, f) = <<tc, 0>>

\* C32 witness: in a session started for the unknown lesson lesson_9, a
\* submit was answered with the error of a zero count.
C32_Witness ==
  /\ training_collector.current_session \in AdminSessionIds
  /\ training_collector.current_lesson_id = "lesson_9"
  /\ last.op = "add_admin_training_sample"
  /\ last.code = 500
  /\ last.samples = 0

\* what the working directory may hold when a training run starts: nothing,
\* or duplicates of the default artifact (with or without a metadata file)
RootShapes == {EmptyDir, [EmptyDir EXCEPT !.pkl = "good", !.tf = "good"], FullDir("good")}

\* C33: in every reachable state, for every content of the working directory
\* and every outcome of the pipeline, a run_training with the default
\* destination that has data (a) has removed models/asl_model.pkl,
\* models/asl_model_tf and the two duplicates of the working directory before
\* its first write, so that afterwards each of them is absent or, in models/,
\* written by this run; (b) leaves an existing models/training_metadata.json,
\* every other file of the working directory and every lesson directory in
\* place; without data it changes no file.  A run_training for a lesson makes
\* no present file or directory absent anywhere.
C33_CleanupOnlyDefaultArtifact ==
  LET tc == training_collector
      n == Len(Assemble(tc, ORIGINAL_LABELS, 1))
  IN /\ \A r \in RootShapes, fail \in FailPoints :
          LET fs0 == [files EXCEPT !["root"] = r]
              t == run_training(tc, fs0, FALSE, None, fail, 0, 0)
              wrote_pkl == n >= 2 /\ fail # "rf_dump"
              wrote_tf == n >= 3 /\ fail \in {"none", "meta_write"}
          IN /\ n = 0 => t.fs = fs0
             /\ n > 0 =>
                  /\ t.fs["models"].exists
                  /\ t.fs["models"].pkl = IF wrote_pkl THEN "good" ELSE "absent"
                  /\ t.fs["models"].tf = IF wrote_tf THEN "good" ELSE "absent"
                  /\ t.fs["root"].pkl = "absent"
                  /\ t.fs["root"].tf = "absent"
             /\ fs0["models"].meta # "absent" => t.fs["models"].meta # "absent"
             /\ t.fs["root"].meta = r.meta
             /\ t.fs["root"].exists = r.exists
             /\ \A l \in LessonIds : t.fs[l] = fs0[l]
     /\ \A r \in RootShapes, fail \in FailPoints, l \in TrainLessonIds :
          LET fs0 == [files EXCEPT !["root"] = r]
              t == run_training(tc, fs0, TRUE, l, fail, 0, 0)
          IN \A d \in ArtifactDirs :
                /\ fs0[d].exists => t.fs[d].exists
                /\ fs0[d].pkl # "absent" => t.fs[d].pkl # "absent"
                /\ fs0[d].tf # "absent" => t.fs[d].tf # "absent"
                /\ fs0[d].meta # "absent" => t.fs[d].meta # "absent"

\* C33 witness: a regular training over a trained default artifact failed
\* after the cleanup and before its first write: the model files are gone,
\* the metadata file is still there, and a lesson artifact written earlier is
\* intact.
C33_Witness ==
  /\ last.op = "complete_training"
  /\ last.code = 500
  /\ files["models"] = [EmptyDir EXCEPT !.meta = "good"]
  /\ files["lesson_1"] = FullDir("good")

C38_BucketsCoverVocabulary ==
  LET tc == training_collector
  IN tc.current_session # None =>
       /\ Elems(tc.current_lesson_gestures) \subseteq DOMAIN tc.training_features
       /\ Elems(tc.current_lesson_gestures) \subseteq DOMAIN tc.training_labels
       /\ \A g \in GestureInputs :
             strip(g) \in Elems(tc.current_lesson_gestures)
               => process_training_frame(tc, g, "hand")[2] >= 1

\* the two finishCollection endpoints
CompleteOps == {"complete_training", "complete_admin_level_training"}

\* C40: every step of a finishCollection endpoint that is not answered with
\* success (a rejected request, an empty dataset, or an exception wherever the
\* pipeline raises, for either destination) leaves the collector as it was:
\* session id, lesson id, vocabulary and all buffers; and a step after which
\* a bucket is missing or shorter is a successful finishCollection or a step
\* that made another session id current.
C40_FailedRunKeepsSamples ==
  [][LET tc == training_collector
     IN /\ (last'.op \in CompleteOps /\ ~last'.ok) => training_collector' = tc
        /\ (\E g \in DOMAIN tc.training_features :
               \/ g \notin DOMAIN training_collector'.training_features
               \/ Len(training_collector'.training_features[g]) < Len(tc.training_features[g]))
             => \/ last'.op \in CompleteOps /\ last'.ok
                \/ training_collector'.current_session # tc.current_session]_vars

\* C40 witness: a regular training over two or more collected samples was
\* answered with an error and the samples are still in the buffers of the
\* current session.
C40_Witness ==
  /\ last.op = "complete_training"
  /\ last.code = 500
  /\ training_collector.current_session = "s1"
  /\ \E g \in DOMAIN training_collector.training_features :
        Len(training_collector.training_features[g]) >= 2

\* C37: in every reachable state of the lesson mode manager, a set mode flag
\* implies that a lesson classifier (neural or ensemble) is loaded:
\* is_practice_mode => has_level_model.
C37_ActiveImpliesClassifier ==
  isolated_level_manager.is_practice_mode
    => get_level_info(isolated_level_manager).has_level_model

\* C36: in every reachable state of the worker-pool server at most one job
\* is inside the extractor call mp_hands.process.
C36_ExtractorSerialized ==
  Cardinality({j \in DOMAIN executor.jobs : executor.jobs[j] \in Extracting}) <= 1

\* the collection and finishCollection endpoints
TrainingOps == {"add_training_sample", "add_admin_training_sample"} \cup CompleteOps

\* C39: every step of a collection or finishCollection endpoint (regular or
\* admin, answered with success or with an error, a training of the active
\* lesson included) leaves the lesson mode manager as it was: mode flag,
\* lesson id, vocabulary, metadata and both classifier handles, and with them
\* the classifier that serves the lesson; the manager changes only in steps
\* of /practice/start and /practice/stop.
C39_TrainingLeavesLessonManager ==
  [][/\ last'.op \in TrainingOps =>
          /\ isolated_level_manager' = isolated_level_manager
          /\ LevelServes(isolated_level_manager') = LevelServes(isolated_level_manager)
     /\ isolated_level_manager' # isolated_level_manager =>
          last'.op \in {"start_practice_mode", "stop_practice_mode"}]_vars

\* C39 witness: lesson_1 was entered when its artifact held the ensemble
\* classifier only; an admin training of lesson_1 has then succeeded and
\* written the full artifact, and the manager is still in lesson_1 with the
\* ensemble classifier and no neural one.
C39_Witness ==
  /\ last.op = "complete_admin_level_training"
  /\ last.ok
  /\ last.lesson_id = "lesson_1"
  /\ files["lesson_1"] = FullDir("good")
  /\ isolated_level_manager.is_practice_mode
  /\ isolated_level_manager.current_level_id = "lesson_1"
  /\ isolated_level_manager.current_level_rf_model = RFModel("lesson_1")
  /\ isolated_level_manager.current_level_model = NoModel

\* C35: in every run of the offline trainer, clean_old_models removes
\* models/ as a whole exactly when the directory exists and each of its
\* entries is asl_model.pkl, asl_model_tf or a name starting with asl_ (an
\* empty directory included); when models/ holds another entry it is not
\* removed, every entry other than asl_model.pkl and asl_model_tf is still
\* there after the run, and these two are gone unless the run wrote them
\* anew; next to the script only the listed files are removed; and models/
\* exists after every run.
C35_OfflineCleanupProtectsOtherFiles ==
  [][offline'.data # "not_run" =>
       LET only_asl == \A e \in offline.models : e \in our_files \/ StartsWithAsl(e)
       IN /\ offline'.models_dir
          /\ offline'.rmtree_models <=> (offline.models_dir /\ only_asl)
          /\ only_asl => offline'.models \subseteq our_files
          /\ ~only_asl => offline'.models \ our_files = offline.models \ our_files
          /\ offline'.data # "enough" => offline'.models \cap our_files = {}
          /\ offline'.root \ {"android_asl_data.csv"} = offline.root \ root_targets
          /\ "train_model_android.py" \in offline'.root]_vars

\* C35 witness: a run without data over a models/ that held the two model
\* files, another asl_ file and the server's metadata file has kept the
\* directory with the latter two in it.
C35_Witness ==
  /\ offline.data = "none"
  /\ offline.models_dir
  /\ ~offline.rmtree_models
  /\ offline.models = {"asl_labels.json", "training_metadata.json"}

====
